---- MODULE Spec2Model ----
(***************************************************************************)
(* Receiving reconciliation of inventory_hub: one receiving session, held  *)
(* either by the JSON-file router (routers/receiving.py) or by the         *)
(* PostgreSQL-backed router (routers/receiving_db.py).                     *)
(*                                                                         *)
(* Codes are sequences of one-character strings, so that trimming and the  *)
(* prefix + sku concatenation are computed, not assumed.  Quantities are   *)
(* whole numbers (float / Decimal arithmetic is exact on them).  Line      *)
(* indices are 1-based here (the HTTP API's line_index is 0-based), 0      *)
(* stands for "no line" / NULL, and a timestamp is the value of the        *)
(* request counter `clock` when the request was served, 0 standing for     *)
(* NULL.                                                                   *)
(***************************************************************************)
EXTENDS Integers, Sequences, FiniteSets, TLC

\* Number of requests served in one behaviour.
MaxOps == 3

----------------------------------------------------------------------------
\* Pure helpers

IsSpace(ch) == ch = " "

RECURSIVE LStrip(_)
LStrip(s) == IF s # <<>> /\ IsSpace(Head(s)) THEN LStrip(Tail(s)) ELSE s

RECURSIVE RStrip(_)
RStrip(s) ==
  IF s # <<>> /\ IsSpace(s[Len(s)]) THEN RStrip(SubSeq(s, 1, Len(s) - 1)) ELSE s

\* str.strip() of _norm_text
Trim(s) == RStrip(LStrip(s))

\* _status_for(received, ordered)
StatusFor(received, ordered) ==
  IF received <= 0 THEN "pending"
  ELSE IF received < ordered THEN "partial"
  ELSE IF received = ordered THEN "matched"
  ELSE "overage"

\* the if / elif chain of the PostgreSQL scan_code
DbStatusFor(received, ordered) ==
  IF received <= 0 THEN "pending"
  ELSE IF received < ordered THEN "partial"
  ELSE IF received = ordered THEN "matched"
  ELSE "overage"

\* _product_code_prefix_for_supplier, for a supplier whose configuration
\* sets no product_code_prefix
ProductCodePrefix(supplier) ==
  IF supplier \in {"paul-lange", "paul_lange"} THEN <<"P", "L", "-">> ELSE <<>>

\* _product_code_for_supplier
ProductCodeFor(supplier, scm) ==
  LET s == Trim(scm)
      prefix == ProductCodePrefix(supplier)
  IN IF prefix # <<>> /\ s # <<>> THEN prefix \o s ELSE s

----------------------------------------------------------------------------
\* Codes and parsed invoices

EanA == <<"4", "0">>
EanB == <<"4", "1">>
SkuA == <<"A">>
SkuB == <<"B">>
NoCode == <<>>

PaddedEanA == <<" ">> \o EanA \o <<" ">>
DerivedA == <<"P", "L", "-">> \o SkuA
Unknown == <<"Z">>

\* What a scanner may send as code.
Codes == {PaddedEanA, SkuA, DerivedA, Unknown}

\* Quantities of a scan.
Qtys == {-1, 1, 4, 6}

\* The scan requests served: every quantity on the ean, one unit on the others.
ScanInputs ==
  {in \in Codes \X Qtys : in[1] = PaddedEanA \/ in[2] = 1}

\* Quantities of a manual edit.
EditQtys == {-1, 4}

Supplier == "paul-lange"

\* Rows as _parse_invoice_rows / _parse_invoice_csv return them (values are
\* stripped by _get_val, an unparseable quantity is 0).
InvScenario == << [ean |-> EanA, scm |-> SkuA, ordered_qty |-> 10] >>
InvShared ==
  << [ean |-> EanA, scm |-> NoCode, ordered_qty |-> 1],
     [ean |-> EanA, scm |-> SkuA, ordered_qty |-> 4] >>
InvTwins ==
  << [ean |-> EanB, scm |-> SkuA, ordered_qty |-> 1],
     [ean |-> EanA, scm |-> SkuA, ordered_qty |-> 6] >>
InvZero == << [ean |-> EanA, scm |-> SkuB, ordered_qty |-> 0] >>

Invoices == {InvScenario, InvShared, InvTwins, InvZero}

\* An invoice whose second row has a blank quantity: _parse_invoice_csv turns
\* it into Decimal("0").
InvBlankQty ==
  << [ean |-> EanA, scm |-> SkuA, ordered_qty |-> 4],
     [ean |-> EanB, scm |-> SkuB, ordered_qty |-> 0] >>

\* The invoice CSV files of the supplier, by invoice number.
InvoiceNos == {"F1", "F2", "F3"}

InvoiceRows(inv_no) ==
  CASE inv_no = "F1" -> InvShared
    [] inv_no = "F2" -> InvScenario
    [] inv_no = "F3" -> InvBlankQty

\* chk_ordered_qty_positive: a row with ordered_qty <= 0 makes the INSERT of
\* create_session fail, so no PostgreSQL session holds such a line.
DbInsertable(rows) == \A i \in 1..Len(rows) : rows[i].ordered_qty > 0

----------------------------------------------------------------------------
VARIABLES
  backend,      \* "json" | "db": the router that created the session
  clock,        \* number of requests served
  fLines,       \* session_<id>.json: "lines"
  fScans,       \* session_<id>.json: "scans"
  fCompleted,   \* completed_<id>.json: [at, items]
  fPause,       \* session_<id>.json: is_paused, paused_at, resumed_at
  dbStatus,     \* receiving_sessions.status
  dbStartedAt,  \* receiving_sessions.started_at
  dbPausedAt,   \* receiving_sessions.paused_at
  dbFinishedAt, \* receiving_sessions.finished_at
  dbLines,      \* receiving_lines of the session, by line_number
  dbEvents,     \* scan_events of the session, by id
  resp,         \* the last response
  inflight,     \* requests being served concurrently: what each has read
  done,         \* history: the scans whose request has completed
  sessions,     \* receiving_sessions with their receiving_lines, by id
  files,        \* receiving/<invoice_no>/session_<id>.json of the supplier
  second,       \* datetime.utcnow(), in whole seconds
  creating,     \* create requests being served: what each has selected
  returned,     \* history: (invoice_no, session_id) of every created session
  idRows,       \* product_identifiers: the committed rows, by id
  txRows,       \* product_identifiers as the open unit of work sees them
  txState,      \* the AsyncSession's transaction: "active" | "failed"
  idResp,       \* outcome of the last identifier-service call
  movements,    \* stock_movements: the committed rows, by id
  balance,      \* stock_balances.qty_on_hand, by product
  ledgerResp    \* outcome of the last application of a movement

fileVars == <<fLines, fScans, fCompleted, fPause>>
dbVars == <<dbStatus, dbStartedAt, dbPausedAt, dbFinishedAt, dbLines, dbEvents>>
raceVars == <<inflight, done>>
storeVars == <<sessions, files, second, creating, returned>>
idVars == <<idRows, txRows, txState, idResp>>
ledgerVars == <<movements, balance, ledgerResp>>
vars == <<backend, clock, fLines, fScans, fCompleted, fPause, dbStatus, dbStartedAt,
          dbPausedAt, dbFinishedAt, dbLines, dbEvents, resp, inflight, done,
          sessions, files, second, creating, returned,
          idRows, txRows, txState, idResp, movements, balance, ledgerResp>>

\* The pause keys of a session file that create_session has written: none
\* (is_paused is read with data.get("is_paused", False)).
NotPaused == [is_paused |-> FALSE, paused_at |-> 0, resumed_at |-> 0]

\* The summary of a response that carries none
NoSummary ==
  [matched |-> 0, partial |-> 0, pending |-> 0, overage |-> 0, unexpected |-> 0]

NoResp ==
  [op |-> "none", ok |-> TRUE, status |-> "", line |-> 0,
   codes |-> <<>>, edits |-> {}, session_id |-> 0, total_lines |-> 0,
   summary |-> NoSummary]

\* create_session of receiving.py: the lines of a new session file
FileNewLines(rows) ==
  [i \in 1..Len(rows) |->
     [ean |-> rows[i].ean, scm |-> rows[i].scm,
      product_code |-> ProductCodeFor(Supplier, rows[i].scm),
      ordered_qty |-> rows[i].ordered_qty,
      received_qty |-> 0, status |-> "pending"]]

\* create_session of receiving_db.py: the ReceivingLine rows of a new session
DbNewLines(rows) ==
  [i \in 1..Len(rows) |->
     [line_number |-> i, ean |-> rows[i].ean, supplier_sku |-> rows[i].scm,
      ordered_qty |-> rows[i].ordered_qty,
      received_qty |-> 0, status |-> "pending"]]

InitFile(rows) ==
  /\ backend = "json"
  /\ fLines = FileNewLines(rows)
  /\ fScans = <<>>
  /\ fCompleted = [at |-> 0, items |-> <<>>]
  /\ fPause = NotPaused
  /\ dbStatus = "none" /\ dbStartedAt = 0 /\ dbPausedAt = 0 /\ dbFinishedAt = 0
  /\ dbLines = <<>> /\ dbEvents = <<>>

InitDb(rows) ==
  /\ backend = "db"
  /\ DbInsertable(rows)
  /\ dbStatus = "new" /\ dbStartedAt = 0 /\ dbPausedAt = 0 /\ dbFinishedAt = 0
  /\ dbLines = DbNewLines(rows)
  /\ dbEvents = <<>>
  /\ fLines = <<>> /\ fScans = <<>> /\ fCompleted = [at |-> 0, items |-> <<>>]
  /\ fPause = NotPaused

\* The requests that may overlap.
Requests == {1, 2}

Idle == [pc |-> "idle"]

\* No session in the stores of the many-session model.
NoStore ==
  /\ sessions = <<>> /\ files = {} /\ second = 1
  /\ creating = [r \in Requests |-> Idle]
  /\ returned = <<>>

NoIdResp == [op |-> "none", ok |-> TRUE, error |-> "", added |-> <<>>]

\* No product identifier, and a unit of work that has done nothing.
NoIdentifiers ==
  /\ idRows = <<>> /\ txRows = <<>> /\ txState = "active" /\ idResp = NoIdResp

\* The products whose stock the ledger keeps
Products == {1, 2}

NoLedgerResp == [op |-> "none", ok |-> TRUE, key |-> ""]

\* An empty ledger: no movement, nothing on hand.
NoLedger ==
  /\ movements = <<>> /\ balance = [p \in Products |-> 0]
  /\ ledgerResp = NoLedgerResp

Init ==
  /\ clock = 0
  /\ resp = NoResp
  /\ inflight = [r \in Requests |-> Idle]
  /\ done = <<>>
  /\ NoStore
  /\ NoIdentifiers
  /\ NoLedger
  /\ \E rows \in Invoices : InitFile(rows) \/ InitDb(rows)

----------------------------------------------------------------------------
\* JSON-file router (routers/receiving.py)

\* scan_code._matches, with code already trimmed
FileMatches(line, code) ==
  \/ code # <<>> /\ Trim(line.ean) = code
  \/ code # <<>> /\ Trim(line.scm) = code
  \/ code # <<>> /\ Trim(line.product_code) = code

\* Mutant: a code found on no line falls back to the first line.
FileFirstMatchOrFirst(lines, code) ==
  IF \E i \in 1..Len(lines) : FileMatches(lines[i], code)
  THEN CHOOSE i \in 1..Len(lines) :
         /\ FileMatches(lines[i], code)
         /\ \A j \in 1..(i - 1) : ~FileMatches(lines[j], code)
  ELSE 1

\* the for ... break loop of scan_code: index of the first matching line, 0 if none
FileFirstMatch(lines, code) ==
  IF \E i \in 1..Len(lines) : FileMatches(lines[i], code)
  THEN CHOOSE i \in 1..Len(lines) :
         /\ FileMatches(lines[i], code)
         /\ \A j \in 1..(i - 1) : ~FileMatches(lines[j], code)
  ELSE 0

\* Mutant: the scan stores its own quantity instead of adding it.
FileCreditOverwrite(line, qty) ==
  [line EXCEPT !.received_qty = qty,
               !.status = StatusFor(qty, line.ordered_qty)]

\* matched["received_qty"] = ... + qty; matched["status"] = _status_for(...)
FileCredit(line, qty) ==
  [line EXCEPT !.received_qty = line.received_qty + qty,
               !.status = StatusFor(line.received_qty + qty, line.ordered_qty)]

\* Mutant: set-qty adds the quantity, as a scan does.
FileSetLineAdds(line, qty) == FileCredit(line, qty)

\* line["received_qty"] = received_qty; line["status"] = _status_for(...)
FileSetLine(line, qty) ==
  [line EXCEPT !.received_qty = qty,
               !.status = StatusFor(qty, line.ordered_qty)]

\* line.get("ean") or line.get("scm") or ""
LineCode(line) == IF line.ean # <<>> THEN line.ean ELSE line.scm

\* accept_all_items: does the loop body update this line
AcceptUpdates(line, only_pending) ==
  /\ ~(only_pending /\ line.status # "pending")
  /\ line.received_qty < line.ordered_qty

\* accept_all_items: the line after the loop body
AcceptLine(line, only_pending) ==
  IF AcceptUpdates(line, only_pending)
  THEN [line EXCEPT !.received_qty = line.ordered_qty, !.status = "matched"]
  ELSE line

\* accept_all_items: the bulk_accept entries, one per updated line, in line order
RECURSIVE AcceptLog(_, _, _)
AcceptLog(lines, only_pending, i) ==
  IF i > Len(lines) THEN <<>>
  ELSE (IF AcceptUpdates(lines[i], only_pending)
        THEN << [type |-> "bulk_accept", code |-> LineCode(lines[i]),
                 qty |-> lines[i].ordered_qty, old_qty |-> lines[i].received_qty,
                 status |-> "matched", line_index |-> i] >>
        ELSE <<>>) \o AcceptLog(lines, only_pending, i + 1)

\* Mutant: reset clears the quantity and leaves the status.
ResetQtyOnly(line) == [line EXCEPT !.received_qty = 0]

\* reset_all_items: every line back to 0 / pending
ResetLine(line) == [line EXCEPT !.received_qty = 0, !.status = "pending"]

\* len([s for s in scans if s.get("status") == "unexpected"])
FileUnexpected(scans) ==
  Cardinality({k \in 1..Len(scans) : scans[k].status = "unexpected"})

\* sum(1 for ln in lines if ln.get("status") == status)
CountStatus(lines, status) ==
  Cardinality({k \in 1..Len(lines) : lines[k].status = status})

\* The summary block that get_summary, scan_code, set_line_quantity and
\* accept_all_items compute from the lines and the scans
FileSummary(lines, scans) ==
  [matched |-> CountStatus(lines, "matched"),
   partial |-> CountStatus(lines, "partial"),
   pending |-> CountStatus(lines, "pending"),
   overage |-> CountStatus(lines, "overage"),
   unexpected |-> FileUnexpected(scans)]

\* The summary block of reset_all_items: written out, not counted
ResetSummary(lines) ==
  [matched |-> 0, partial |-> 0, pending |-> Len(lines), overage |-> 0,
   unexpected |-> 0]

\* finalize_session: does the line go into received_items
FileReceived(line) == line.received_qty > 0

\* finalize_session: the received_items entry of a line
FileItem(line) ==
  [product_code |-> IF line.product_code # <<>> THEN line.product_code
                    ELSE ProductCodeFor(Supplier, line.scm),
   scm |-> line.scm, ean |-> line.ean,
   ordered_qty |-> line.ordered_qty,
   received_qty |-> line.received_qty,
   status |-> line.status]

\* finalize_session: received_items, in line order
RECURSIVE FileReceivedItems(_, _)
FileReceivedItems(lines, i) ==
  IF i > Len(lines) THEN <<>>
  ELSE (IF FileReceived(lines[i])
        THEN << FileItem(lines[i]) >>
        ELSE <<>>) \o FileReceivedItems(lines, i + 1)

FileScan(code, qty) ==
  /\ backend = "json" /\ clock < MaxOps
  /\ LET c == Trim(code)
         m == FileFirstMatch(fLines, c)
         lines2 == IF m = 0 THEN fLines
                   ELSE [fLines EXCEPT ![m] = FileCredit(fLines[m], qty)]
         status == IF m = 0 THEN "unexpected" ELSE lines2[m].status
     IN /\ fLines' = lines2
        /\ fScans' = Append(fScans,
             [type |-> "", code |-> c, qty |-> qty, old_qty |-> 0,
              status |-> status, line_index |-> 0])
        /\ resp' = [NoResp EXCEPT !.op = "scan", !.status = status, !.line = m,
                                  !.summary = FileSummary(fLines', fScans')]
  /\ clock' = clock + 1
  /\ UNCHANGED <<ledgerVars, backend, idVars, storeVars, fCompleted, fPause, dbVars, raceVars>>

FileSetQty(idx, qty) ==
  /\ backend = "json" /\ clock < MaxOps
  /\ IF idx < 1 \/ idx > Len(fLines)
     THEN /\ resp' = [NoResp EXCEPT !.op = "set-qty", !.ok = FALSE]
          /\ UNCHANGED <<fLines, fScans>>
     ELSE LET line2 == FileSetLine(fLines[idx], qty)
          IN /\ fLines' = [fLines EXCEPT ![idx] = line2]
             /\ fScans' = Append(fScans,
                  [type |-> "manual_edit", code |-> LineCode(fLines[idx]),
                   qty |-> qty, old_qty |-> fLines[idx].received_qty,
                   status |-> line2.status, line_index |-> idx])
             /\ resp' = [NoResp EXCEPT !.op = "set-qty",
                                       !.status = line2.status, !.line = idx,
                                       !.summary = FileSummary(fLines', fScans')]
  /\ clock' = clock + 1
  /\ UNCHANGED <<ledgerVars, backend, idVars, storeVars, fCompleted, fPause, dbVars, raceVars>>

FileAcceptAll(only_pending) ==
  /\ backend = "json" /\ clock < MaxOps
  /\ fLines' = [i \in 1..Len(fLines) |-> AcceptLine(fLines[i], only_pending)]
  /\ fScans' = fScans \o AcceptLog(fLines, only_pending, 1)
  /\ resp' = [NoResp EXCEPT !.op = "accept-all",
                            !.summary = FileSummary(fLines', fScans')]
  /\ clock' = clock + 1
  /\ UNCHANGED <<ledgerVars, backend, idVars, storeVars, fCompleted, fPause, dbVars, raceVars>>

FileResetAll ==
  /\ backend = "json" /\ clock < MaxOps
  /\ fScans' = Append(fScans,
       [type |-> "bulk_reset", code |-> <<>>, qty |-> 0, old_qty |-> 0,
        status |-> "", line_index |-> 0])
  /\ fLines' = [i \in 1..Len(fLines) |-> ResetLine(fLines[i])]
  /\ resp' = [NoResp EXCEPT !.op = "reset-all",
                            !.summary = ResetSummary(fLines')]
  /\ clock' = clock + 1
  /\ UNCHANGED <<ledgerVars, backend, idVars, storeVars, fCompleted, fPause, dbVars, raceVars>>

FileFinalize ==
  /\ backend = "json" /\ clock < MaxOps
  /\ fCompleted' = [at |-> clock + 1, items |-> FileReceivedItems(fLines, 1)]
  /\ resp' = [NoResp EXCEPT !.op = "finalize"]
  /\ clock' = clock + 1
  /\ UNCHANGED <<ledgerVars, backend, idVars, storeVars, fLines, fScans, fPause, dbVars, raceVars>>

\* pause_session: no test of the session's state; the file is rewritten with
\* is_paused / paused_at (and pause_stats, computed from the lines)
FilePause ==
  /\ backend = "json" /\ clock < MaxOps
  /\ fPause' = [fPause EXCEPT !.is_paused = TRUE, !.paused_at = clock + 1]
  /\ resp' = [NoResp EXCEPT !.op = "pause"]
  /\ clock' = clock + 1
  /\ UNCHANGED <<ledgerVars, backend, idVars, storeVars, fLines, fScans, fCompleted, dbVars, raceVars>>

\* resume_session: no test of the session's state either
FileResume ==
  /\ backend = "json" /\ clock < MaxOps
  /\ fPause' = [fPause EXCEPT !.is_paused = FALSE, !.resumed_at = clock + 1]
  /\ resp' = [NoResp EXCEPT !.op = "resume"]
  /\ clock' = clock + 1
  /\ UNCHANGED <<ledgerVars, backend, idVars, storeVars, fLines, fScans, fCompleted, dbVars, raceVars>>

FileNext ==
  \/ \E in \in ScanInputs : FileScan(in[1], in[2])
  \/ \E idx \in 1..(Len(fLines) + 1), qty \in EditQtys : FileSetQty(idx, qty)
  \/ \E only_pending \in BOOLEAN : FileAcceptAll(only_pending)
  \/ FileResetAll
  \/ FileFinalize
  \/ FilePause
  \/ FileResume

----------------------------------------------------------------------------
\* PostgreSQL-backed router (routers/receiving_db.py)

ReceivingStatus == {"new", "in_progress", "paused", "completed", "cancelled"}

\* session.lines is loaded by selectinload over a relationship without
\* order_by: the rows come in whatever order the database returns them.
LineOrders(n) ==
  {o \in [1..n -> 1..n] : \A i, j \in 1..n : i # j => o[i] # o[j]}

\* the two tests of the matching loop of scan_code, with code already trimmed
DbMatches(line, code) ==
  \/ code # <<>> /\ line.ean # <<>> /\ Trim(line.ean) = code
  \/ code # <<>> /\ line.supplier_sku # <<>> /\ Trim(line.supplier_sku) = code

\* the for ... break loop of scan_code over the lines as loaded: line_number
\* of the first matching line, 0 if none
DbFirstMatch(lines, order, code) ==
  IF \E k \in 1..Len(lines) : DbMatches(lines[order[k]], code)
  THEN order[CHOOSE k \in 1..Len(lines) :
               /\ DbMatches(lines[order[k]], code)
               /\ \A j \in 1..(k - 1) : ~DbMatches(lines[order[j]], code)]
  ELSE 0

\* matched_line.received_qty += qty, then the status chain
DbCredit(line, qty) ==
  [line EXCEPT !.received_qty = line.received_qty + qty,
               !.status = DbStatusFor(line.received_qty + qty, line.ordered_qty)]

\* chk_received_qty_non_negative, checked when the UPDATE is flushed at commit
DbLinesValid(lines) == \A i \in 1..Len(lines) : lines[i].received_qty >= 0

\* Mutant: every scan puts the session in progress.
ScanAlwaysInProgress(status) == "in_progress"

\* if session.status == ReceivingStatus.new: the status a scan leaves
ScanSessionStatus(status) == IF status = "new" THEN "in_progress" ELSE status

\* ... and the started_at it leaves
ScanStartedAt(status, started_at, now) == IF status = "new" THEN now ELSE started_at

\* SELECT count(*) of the session's active scan events without a line
DbUnexpected(events) ==
  Cardinality({k \in 1..Len(events) :
                 events[k].receiving_line_id = 0 /\ events[k].status = "active"})

\* The summary block of get_session_summary and scan_code: the lines are the
\* loaded objects, the unexpected count is the SELECT count(*) over the
\* scan_events rows the database holds
DbSummary(lines, events) ==
  [matched |-> CountStatus(lines, "matched"),
   partial |-> CountStatus(lines, "partial"),
   pending |-> CountStatus(lines, "pending"),
   overage |-> CountStatus(lines, "overage"),
   unexpected |-> DbUnexpected(events)]

\* Mutant: the already-finalized guard is missing.
FinalizeAlways(status) == TRUE

\* finalize_session: the guard that rejects a finalized session
FinalizeAllowed(status) == status # "completed"

\* Mutant: pause only refuses terminal sessions.
PauseUnlessTerminal(status) == status \notin {"completed", "cancelled"}

\* pause_session: the statuses it accepts
PauseAllowed(status) == status \in {"new", "in_progress"}

\* Mutant: resume also accepts a session that was never paused.
ResumeUnlessTerminal(status) == status \notin {"completed", "cancelled"}

\* resume_session: the statuses it accepts
ResumeAllowed(status) == status = "paused"

\* finalize_session: pc of a line (NoCode stands for None)
DbProductCode(line) ==
  IF line.supplier_sku # <<>>
  THEN ProductCodePrefix(Supplier) \o line.supplier_sku ELSE NoCode

\* finalize_session: does the loop body emit this line
DbSelected(line) == line.received_qty > 0 /\ DbProductCode(line) # NoCode

\* finalize_session: selected_codes, over the lines as loaded
RECURSIVE DbSelectedCodes(_, _, _)
DbSelectedCodes(lines, order, k) ==
  IF k > Len(lines) THEN <<>>
  ELSE (IF DbSelected(lines[order[k]])
        THEN << DbProductCode(lines[order[k]]) >> ELSE <<>>)
       \o DbSelectedCodes(lines, order, k + 1)

\* finalize_session: the edits dict as its set of (pc, INVOICE_QTY) items; a
\* later line with the same pc overwrites the earlier one
DbEdits(lines, order) ==
  { <<DbProductCode(lines[order[k]]), lines[order[k]].received_qty>> :
      k \in {k \in 1..Len(lines) :
               /\ DbSelected(lines[order[k]])
               /\ \A j \in (k + 1)..Len(lines) :
                    ~(/\ DbSelected(lines[order[j]])
                      /\ DbProductCode(lines[order[j]]) = DbProductCode(lines[order[k]]))} }

DbScan(code, qty, order) ==
  /\ backend = "db" /\ clock < MaxOps
  /\ LET c == Trim(code)
         m == DbFirstMatch(dbLines, order, c)
         lines2 == IF m = 0 THEN dbLines
                   ELSE [dbLines EXCEPT ![m] = DbCredit(dbLines[m], qty)]
         status == IF m = 0 THEN "unexpected" ELSE lines2[m].status
     IN IF DbLinesValid(lines2)
        THEN /\ dbStatus' = ScanSessionStatus(dbStatus)
             /\ dbStartedAt' = ScanStartedAt(dbStatus, dbStartedAt, clock + 1)
             /\ dbLines' = lines2
             /\ dbEvents' = Append(dbEvents,
                  [receiving_line_id |-> m, scanned_code |-> c,
                   quantity |-> qty, status |-> "active"])
             \* autoflush=False: the count(*) runs before the added ScanEvent
             \* is flushed, so it sees the events of the earlier requests only
             /\ resp' = [NoResp EXCEPT !.op = "scan", !.status = status, !.line = m,
                                       !.summary = DbSummary(lines2, dbEvents)]
             /\ UNCHANGED <<dbPausedAt, dbFinishedAt>>
        ELSE \* IntegrityError at commit: get_session rolls back
             /\ resp' = [NoResp EXCEPT !.op = "scan", !.ok = FALSE]
             /\ UNCHANGED dbVars
  /\ clock' = clock + 1
  /\ UNCHANGED <<ledgerVars, backend, idVars, storeVars, fileVars, raceVars>>

DbFinalize(order) ==
  /\ backend = "db" /\ clock < MaxOps
  /\ IF FinalizeAllowed(dbStatus)
     THEN /\ dbStatus' = "completed"
          /\ dbFinishedAt' = clock + 1
          /\ resp' = [NoResp EXCEPT !.op = "finalize",
                        !.status = "completed",
                        !.codes = DbSelectedCodes(dbLines, order, 1),
                        !.edits = DbEdits(dbLines, order)]
          /\ UNCHANGED <<dbStartedAt, dbPausedAt, dbLines, dbEvents>>
     ELSE /\ resp' = [NoResp EXCEPT !.op = "finalize", !.ok = FALSE]
          /\ UNCHANGED dbVars
  /\ clock' = clock + 1
  /\ UNCHANGED <<ledgerVars, backend, idVars, storeVars, fileVars, raceVars>>

DbPause ==
  /\ backend = "db" /\ clock < MaxOps
  /\ IF PauseAllowed(dbStatus)
     THEN /\ dbStatus' = "paused"
          /\ dbPausedAt' = clock + 1
          /\ resp' = [NoResp EXCEPT !.op = "pause", !.status = "paused"]
          /\ UNCHANGED <<dbStartedAt, dbFinishedAt, dbLines, dbEvents>>
     ELSE /\ resp' = [NoResp EXCEPT !.op = "pause", !.ok = FALSE]
          /\ UNCHANGED dbVars
  /\ clock' = clock + 1
  /\ UNCHANGED <<ledgerVars, backend, idVars, storeVars, fileVars, raceVars>>

DbResume ==
  /\ backend = "db" /\ clock < MaxOps
  /\ IF ResumeAllowed(dbStatus)
     THEN /\ dbStatus' = "in_progress"
          /\ dbPausedAt' = 0
          /\ resp' = [NoResp EXCEPT !.op = "resume", !.status = "in_progress"]
          /\ UNCHANGED <<dbStartedAt, dbFinishedAt, dbLines, dbEvents>>
     ELSE /\ resp' = [NoResp EXCEPT !.op = "resume", !.ok = FALSE]
          /\ UNCHANGED dbVars
  /\ clock' = clock + 1
  /\ UNCHANGED <<ledgerVars, backend, idVars, storeVars, fileVars, raceVars>>

DbNext ==
  \/ \E in \in ScanInputs, order \in LineOrders(Len(dbLines)) :
       DbScan(in[1], in[2], order)
  \/ \E order \in LineOrders(Len(dbLines)) : DbFinalize(order)
  \/ DbPause
  \/ DbResume

Next == FileNext \/ DbNext

Spec == Init /\ [][Next]_vars

----------------------------------------------------------------------------
\* Overlapping scan requests.  The JSON-file endpoints are plain functions run
\* on the server's thread pool: a request reads the session file, computes, and
\* writes the file back, with other requests free to run in between.  A
\* PostgreSQL request loads the session and its lines, changes the loaded
\* objects, and get_session commits after the handler returns: the flush
\* writes the changed attributes as computed from what was loaded.

NoneInFlight == \A r \in Requests : inflight[r].pc = "idle"

InFlight == Cardinality({r \in Requests : inflight[r].pc # "idle"})

\* data = json.loads(target_path.read_text())
FileScanRead(r, code, qty) ==
  /\ backend = "json" /\ inflight[r].pc = "idle"
  /\ clock + InFlight < MaxOps
  /\ inflight' = [inflight EXCEPT ![r] =
        [pc |-> "read", code |-> code, qty |-> qty,
         lines |-> fLines, scans |-> fScans]]
  /\ UNCHANGED <<ledgerVars, backend, idVars, storeVars, clock, fileVars, dbVars, resp, done>>

\* the rest of scan_code, up to target_path.write_text(...)
FileScanWrite(r) ==
  /\ backend = "json" /\ inflight[r].pc = "read"
  /\ LET rq == inflight[r]
         c == Trim(rq.code)
         m == FileFirstMatch(rq.lines, c)
         lines2 == IF m = 0 THEN rq.lines
                   ELSE [rq.lines EXCEPT ![m] = FileCredit(rq.lines[m], rq.qty)]
         status == IF m = 0 THEN "unexpected" ELSE lines2[m].status
     IN /\ fLines' = lines2
        /\ fScans' = Append(rq.scans,
             [type |-> "", code |-> c, qty |-> rq.qty, old_qty |-> 0,
              status |-> status, line_index |-> 0])
        /\ done' = Append(done, [line |-> m, qty |-> rq.qty, code |-> c])
  /\ inflight' = [inflight EXCEPT ![r] = Idle]
  /\ clock' = clock + 1
  /\ UNCHANGED <<ledgerVars, backend, idVars, storeVars, fCompleted, fPause, dbVars, resp>>

\* pause_session: data = json.loads(target_path.read_text())
FilePauseRead(r) ==
  /\ backend = "json" /\ inflight[r].pc = "idle"
  /\ clock + InFlight < MaxOps
  /\ inflight' = [inflight EXCEPT ![r] =
        [pc |-> "pausing", lines |-> fLines, scans |-> fScans, pause |-> fPause]]
  /\ UNCHANGED <<ledgerVars, backend, idVars, storeVars, clock, fileVars, dbVars, resp, done>>

\* pause_session: the rest, up to target_path.write_text(...) of the data read
FilePauseWrite(r) ==
  /\ backend = "json" /\ inflight[r].pc = "pausing"
  /\ fLines' = inflight[r].lines
  /\ fScans' = inflight[r].scans
  /\ fPause' = [inflight[r].pause EXCEPT !.is_paused = TRUE, !.paused_at = clock + 1]
  /\ inflight' = [inflight EXCEPT ![r] = Idle]
  /\ clock' = clock + 1
  /\ UNCHANGED <<ledgerVars, backend, idVars, storeVars, fCompleted, dbVars, resp, done>>

\* result = await db.execute(stmt) with selectinload(ReceivingSession.lines)
DbScanLoad(r, code, qty, order) ==
  /\ backend = "db" /\ inflight[r].pc = "idle"
  /\ clock + InFlight < MaxOps
  /\ inflight' = [inflight EXCEPT ![r] =
        [pc |-> "loaded", code |-> code, qty |-> qty, order |-> order,
         status |-> dbStatus, started_at |-> dbStartedAt, lines |-> dbLines]]
  /\ UNCHANGED <<ledgerVars, backend, idVars, storeVars, clock, fileVars, dbVars, resp, done>>

\* the rest of scan_code on the loaded objects, then session.commit(): the
\* UPDATE of the session row if its status was changed, the UPDATE of the
\* matched line with the values computed from the loaded ones, the INSERT of
\* the scan event
DbScanCommit(r) ==
  /\ backend = "db" /\ inflight[r].pc = "loaded"
  /\ LET rq == inflight[r]
         c == Trim(rq.code)
         m == DbFirstMatch(rq.lines, rq.order, c)
         line2 == DbCredit(rq.lines[m], rq.qty)
     IN IF m # 0 /\ ~DbLinesValid(<<line2>>)
        THEN UNCHANGED <<dbVars, done>>
        ELSE /\ dbStatus' = IF rq.status = "new"
                            THEN ScanSessionStatus(rq.status) ELSE dbStatus
             /\ dbStartedAt' = IF rq.status = "new"
                               THEN ScanStartedAt(rq.status, rq.started_at, clock + 1)
                               ELSE dbStartedAt
             /\ dbLines' = IF m = 0 THEN dbLines
                           ELSE [dbLines EXCEPT ![m] = line2]
             /\ dbEvents' = Append(dbEvents,
                  [receiving_line_id |-> m, scanned_code |-> c,
                   quantity |-> rq.qty, status |-> "active"])
             /\ done' = Append(done, [line |-> m, qty |-> rq.qty, code |-> c])
             /\ UNCHANGED <<dbPausedAt, dbFinishedAt>>
  /\ inflight' = [inflight EXCEPT ![r] = Idle]
  /\ clock' = clock + 1
  /\ UNCHANGED <<ledgerVars, backend, idVars, storeVars, fileVars, resp>>

\* finalize_session of receiving.py: data = json.loads(target_path.read_text())
FileFinalizeRead(r) ==
  /\ backend = "json" /\ inflight[r].pc = "idle"
  /\ clock + InFlight < MaxOps
  /\ inflight' = [inflight EXCEPT ![r] = [pc |-> "finalizing", lines |-> fLines]]
  /\ UNCHANGED <<ledgerVars, backend, idVars, storeVars, clock, fileVars, dbVars, resp, done>>

\* finalize_session of receiving.py: the rest, completed_<id>.json written
\* from the lines read
FileFinalizeWrite(r) ==
  /\ backend = "json" /\ inflight[r].pc = "finalizing"
  /\ fCompleted' = [at |-> clock + 1, items |-> FileReceivedItems(inflight[r].lines, 1)]
  /\ resp' = [NoResp EXCEPT !.op = "finalize"]
  /\ inflight' = [inflight EXCEPT ![r] = Idle]
  /\ clock' = clock + 1
  /\ UNCHANGED <<ledgerVars, backend, idVars, storeVars, fLines, fScans, fPause, dbVars, done>>

\* finalize_session of receiving_db.py: the SELECT of the session and its
\* lines (no FOR UPDATE, no version column)
DbFinalizeLoad(r, order) ==
  /\ backend = "db" /\ inflight[r].pc = "idle"
  /\ clock + InFlight < MaxOps
  /\ inflight' = [inflight EXCEPT ![r] =
        [pc |-> "finalizing", order |-> order, status |-> dbStatus,
         lines |-> dbLines]]
  /\ UNCHANGED <<ledgerVars, backend, idVars, storeVars, clock, fileVars, dbVars, resp, done>>

\* finalize_session of receiving_db.py: the guard on the loaded status, the
\* output from the loaded lines, and session.commit(): the UPDATE of status
\* and finished_at
DbFinalizeCommit(r) ==
  /\ backend = "db" /\ inflight[r].pc = "finalizing"
  /\ LET rq == inflight[r]
     IN IF FinalizeAllowed(rq.status)
        THEN /\ dbStatus' = "completed"
             /\ dbFinishedAt' = clock + 1
             /\ resp' = [NoResp EXCEPT !.op = "finalize",
                           !.status = "completed",
                           !.codes = DbSelectedCodes(rq.lines, rq.order, 1),
                           !.edits = DbEdits(rq.lines, rq.order)]
             /\ UNCHANGED <<dbStartedAt, dbPausedAt, dbLines, dbEvents>>
        ELSE /\ resp' = [NoResp EXCEPT !.op = "finalize", !.ok = FALSE]
             /\ UNCHANGED dbVars
  /\ inflight' = [inflight EXCEPT ![r] = Idle]
  /\ clock' = clock + 1
  /\ UNCHANGED <<ledgerVars, backend, idVars, storeVars, fileVars, done>>

\* The scan requests that overlap.
RaceInputs ==
  {in \in ScanInputs : in[1] \in {PaddedEanA, Unknown} /\ in[2] \in {-1, 1, 4}}

RaceNext ==
  \/ \E r \in Requests, in \in RaceInputs : FileScanRead(r, in[1], in[2])
  \/ \E r \in Requests : FileScanWrite(r)
  \/ \E r \in Requests : FilePauseRead(r)
  \/ \E r \in Requests : FilePauseWrite(r)
  \/ \E r \in Requests, in \in RaceInputs, order \in LineOrders(Len(dbLines)) :
       DbScanLoad(r, in[1], in[2], order)
  \/ \E r \in Requests : DbScanCommit(r)
  \/ \E r \in Requests : FileFinalizeRead(r)
  \/ \E r \in Requests : FileFinalizeWrite(r)
  \/ \E r \in Requests, order \in LineOrders(Len(dbLines)) : DbFinalizeLoad(r, order)
  \/ \E r \in Requests : DbFinalizeCommit(r)

RaceSpec == Init /\ [][RaceNext]_vars

----------------------------------------------------------------------------
\* Many sessions: create-session of both routers, and scans addressed to a
\* session by its identifier.  The single-session variables stay empty here.

\* Last value of the wall clock, in seconds.
MaxSecond == 2

NoSession ==
  /\ fLines = <<>> /\ fScans = <<>> /\ fCompleted = [at |-> 0, items |-> <<>>]
  /\ fPause = NotPaused
  /\ dbStatus = "none" /\ dbStartedAt = 0 /\ dbPausedAt = 0 /\ dbFinishedAt = 0
  /\ dbLines = <<>> /\ dbEvents = <<>>

BARCODE_TYPES == {"ean", "upc", "unverified_barcode"}

\* find_product_by_barcode: the products the SELECT ... LIMIT 1 may return,
\* the rows of the barcode group holding the code (every product is active)
BarcodeCandidates(rows, code) ==
  {rows[k].product_id :
     k \in {j \in 1..Len(rows) : /\ rows[j].value = Trim(code)
                                  /\ rows[j].identifier_type \in BARCODE_TYPES}}

\* find_product_by_identifier: the products the SELECT ... LIMIT 1 may
\* return; the supplier filter applies to supplier_sku only (0: no supplier)
IdentifierCandidates(rows, value, identifier_type, supplier_id) ==
  {rows[k].product_id :
     k \in {j \in 1..Len(rows) :
              /\ rows[j].value = Trim(value)
              /\ rows[j].identifier_type = identifier_type
              /\ (supplier_id # 0 /\ identifier_type = "supplier_sku")
                   => rows[j].supplier_id = supplier_id}}

\* supplier.id of the supplier whose invoices are received
SupplierId == 1

\* Mutant: the supplier_sku lookup is tried before the barcode lookup.
ResolveSkuFirst(ids, row, supplier_id) ==
  LET by_ean == IF row.ean # <<>> THEN BarcodeCandidates(ids, row.ean) ELSE {}
      by_sku == IF row.scm # <<>>
                THEN IdentifierCandidates(ids, row.scm, "supplier_sku", supplier_id)
                ELSE {}
  IN IF by_sku # {}
     THEN {[product_id |-> q, match_method |-> "supplier_sku"] : q \in by_sku}
     ELSE IF by_ean # {}
     THEN {[product_id |-> q, match_method |-> "ean"] : q \in by_ean}
     ELSE {[product_id |-> 0, match_method |-> "none"]}

\* create_session, "Try to match product": the (product, match_method) pairs
\* the two lookups may give a row; product_id 0 and match_method "none"
\* stand for None
ResolveLine(ids, row, supplier_id) ==
  LET by_ean == IF row.ean # <<>> THEN BarcodeCandidates(ids, row.ean) ELSE {}
      by_sku == IF row.scm # <<>>
                THEN IdentifierCandidates(ids, row.scm, "supplier_sku", supplier_id)
                ELSE {}
  IN IF by_ean # {}
     THEN {[product_id |-> q, match_method |-> "ean"] : q \in by_ean}
     ELSE IF by_sku # {}
     THEN {[product_id |-> q, match_method |-> "supplier_sku"] : q \in by_sku}
     ELSE {[product_id |-> 0, match_method |-> "none"]}

\* What a lookup pair may return for any row
Matches ==
  [product_id : Products \cup {0}, match_method : {"ean", "supplier_sku", "none"}]

\* The product_identifiers rows the sessions are created against
IdRow(product_id, identifier_type, value, supplier_id) ==
  [product_id |-> product_id, identifier_type |-> identifier_type,
   value |-> value, supplier_id |-> supplier_id, is_primary |-> FALSE]

Catalogs ==
  { <<>>,
    << IdRow(1, "ean", EanA, 0) >>,
    << IdRow(2, "supplier_sku", SkuA, SupplierId) >>,
    << IdRow(2, "supplier_sku", SkuA, SupplierId + 1) >>,
    << IdRow(1, "ean", EanA, 0), IdRow(2, "supplier_sku", SkuA, SupplierId) >>,
    << IdRow(1, "unverified_barcode", EanA, 0),
       IdRow(2, "unverified_barcode", EanA, 0) >> }

StoreInit ==
  /\ backend \in {"json", "db"}
  /\ clock = 0
  /\ resp = NoResp
  /\ inflight = [r \in Requests |-> Idle]
  /\ done = <<>>
  /\ NoSession
  /\ NoStore
  /\ idRows \in Catalogs /\ (backend = "json" => idRows = <<>>)
  /\ txRows = idRows /\ txState = "active" /\ idResp = NoIdResp
  /\ NoLedger

\* The wall clock passes a second boundary.
Tick ==
  /\ second < MaxSecond
  /\ second' = second + 1
  /\ UNCHANGED <<ledgerVars, backend, idVars, clock, fileVars, dbVars, resp, raceVars,
                 sessions, files, creating, returned>>

\* s_path.write_text(...) / target_path.write_text(...): the file at
\* receiving/<inv>/session_<id>.json is created or replaced
WriteFile(fs, f) ==
  {g \in fs : ~(g.inv = f.inv /\ g.id = f.id)} \cup {f}

\* create_session of receiving.py: sess_id is utcnow() formatted to the second
FileCreate(inv_no) ==
  /\ backend = "json" /\ clock < MaxOps
  /\ LET lines == FileNewLines(InvoiceRows(inv_no))
         sess_id == second
     IN /\ files' = WriteFile(files, [inv |-> inv_no, id |-> sess_id,
                                      lines |-> lines, scans |-> <<>>])
        /\ returned' = Append(returned, [invoice |-> inv_no, session_id |-> sess_id])
        /\ resp' = [NoResp EXCEPT !.op = "create", !.session_id = sess_id,
                                  !.total_lines = Len(lines)]
  /\ clock' = clock + 1
  /\ UNCHANGED <<ledgerVars, backend, idVars, fileVars, dbVars, raceVars, sessions, second, creating>>

\* scan_code of receiving.py: the session file is the first hit of
\* base.iterdir() (directory order is arbitrary) holding session_<id>.json
StoreFileScan(session_id, code, qty) ==
  /\ backend = "json" /\ clock < MaxOps
  /\ IF \A f \in files : f.id # session_id
     THEN /\ resp' = [NoResp EXCEPT !.op = "scan", !.ok = FALSE,
                                    !.session_id = session_id]
          /\ UNCHANGED files
     ELSE \E f \in {g \in files : g.id = session_id} :
            LET c == Trim(code)
                m == FileFirstMatch(f.lines, c)
                lines2 == IF m = 0 THEN f.lines
                          ELSE [f.lines EXCEPT ![m] = FileCredit(f.lines[m], qty)]
                status == IF m = 0 THEN "unexpected" ELSE lines2[m].status
            IN /\ files' = WriteFile(files,
                    [f EXCEPT !.lines = lines2,
                              !.scans = Append(f.scans,
                                 [type |-> "", code |-> c, qty |-> qty, old_qty |-> 0,
                                  status |-> status, line_index |-> 0])])
               /\ resp' = [NoResp EXCEPT !.op = "scan", !.status = status,
                                         !.line = m, !.session_id = session_id]
  /\ clock' = clock + 1
  /\ UNCHANGED <<ledgerVars, backend, idVars, fileVars, dbVars, raceVars, sessions, second, creating,
                 returned>>

\* uq_receiving_invoice: is there a committed session of the invoice
SessionExists(ss, inv_no) == \E k \in 1..Len(ss) : ss[k].invoice_number = inv_no

\* create_session of receiving_db.py, up to the "Check if session already
\* exists" SELECT: 409 if it finds a session
DbCreateSelect(r, inv_no) ==
  /\ backend = "db" /\ creating[r].pc = "idle"
  /\ clock + Cardinality({q \in Requests : creating[q].pc # "idle"}) < MaxOps
  /\ IF SessionExists(sessions, inv_no)
     THEN /\ resp' = [NoResp EXCEPT !.op = "create", !.ok = FALSE]
          /\ clock' = clock + 1
          /\ UNCHANGED creating
     ELSE /\ creating' = [creating EXCEPT ![r] = [pc |-> "selected", inv |-> inv_no]]
          /\ UNCHANGED <<resp, clock>>
  /\ UNCHANGED <<ledgerVars, backend, idVars, fileVars, dbVars, raceVars, sessions, files, second,
                 returned>>

\* the rest of create_session and the commit of get_session: INSERT of the
\* session (uq_receiving_invoice), INSERT of the lines
\* (chk_ordered_qty_positive); an IntegrityError rolls the transaction back
DbCreateInsert(r) ==
  /\ backend = "db" /\ creating[r].pc = "selected"
  /\ LET inv_no == creating[r].inv
         rows == InvoiceRows(inv_no)
     IN IF SessionExists(sessions, inv_no) \/ ~DbInsertable(rows)
        THEN /\ resp' = [NoResp EXCEPT !.op = "create", !.ok = FALSE]
             /\ UNCHANGED <<sessions, returned>>
        ELSE /\ \E found \in [1..Len(rows) -> Matches] :
                  /\ \A i \in 1..Len(rows) :
                       found[i] \in ResolveLine(idRows, rows[i], SupplierId)
                  /\ sessions' = Append(sessions,
                       [invoice_number |-> inv_no, status |-> "new",
                        total_lines |-> Len(rows), started_at |-> 0,
                        lines |-> [i \in 1..Len(rows) |->
                                     DbNewLines(rows)[i] @@ found[i]],
                        events |-> <<>>])
             /\ returned' = Append(returned,
                  [invoice |-> inv_no, session_id |-> Len(sessions) + 1])
             /\ resp' = [NoResp EXCEPT !.op = "create",
                           !.session_id = Len(sessions) + 1,
                           !.total_lines = Len(rows)]
  /\ creating' = [creating EXCEPT ![r] = Idle]
  /\ clock' = clock + 1
  /\ UNCHANGED <<ledgerVars, backend, idVars, fileVars, dbVars, raceVars, files, second>>

\* scan_code of receiving_db.py on the session with the given id
StoreDbScan(session_id, code, qty, order) ==
  /\ backend = "db" /\ clock < MaxOps
  /\ session_id \in 1..Len(sessions)
  /\ order \in LineOrders(Len(sessions[session_id].lines))
  /\ LET ses == sessions[session_id]
         c == Trim(code)
         m == DbFirstMatch(ses.lines, order, c)
         lines2 == IF m = 0 THEN ses.lines
                   ELSE [ses.lines EXCEPT ![m] = DbCredit(ses.lines[m], qty)]
         status == IF m = 0 THEN "unexpected" ELSE lines2[m].status
     IN IF DbLinesValid(lines2)
        THEN /\ sessions' = [sessions EXCEPT ![session_id] =
                  [ses EXCEPT !.status = ScanSessionStatus(ses.status),
                              !.started_at = ScanStartedAt(ses.status, ses.started_at,
                                                           clock + 1),
                              !.lines = lines2,
                              !.events = Append(ses.events,
                                 [receiving_line_id |-> m, scanned_code |-> c,
                                  quantity |-> qty, status |-> "active"])]]
             /\ resp' = [NoResp EXCEPT !.op = "scan", !.status = status,
                                       !.line = m, !.session_id = session_id]
        ELSE /\ resp' = [NoResp EXCEPT !.op = "scan", !.ok = FALSE,
                                       !.session_id = session_id]
             /\ UNCHANGED sessions
  /\ clock' = clock + 1
  /\ UNCHANGED <<ledgerVars, backend, idVars, fileVars, dbVars, raceVars, files, second, creating,
                 returned>>

\* The scans sent to the stores.
StoreScanInputs == {<<PaddedEanA, 1>>, <<PaddedEanA, -1>>, <<Unknown, 1>>}

StoreNext ==
  \/ Tick
  \/ \E inv_no \in InvoiceNos : FileCreate(inv_no)
  \/ \E session_id \in 1..MaxSecond, in \in StoreScanInputs :
       StoreFileScan(session_id, in[1], in[2])
  \/ \E r \in Requests, inv_no \in InvoiceNos : DbCreateSelect(r, inv_no)
  \/ \E r \in Requests : DbCreateInsert(r)
  \/ \E session_id \in 1..Len(sessions), in \in StoreScanInputs,
        order \in LineOrders(2) \cup LineOrders(1) :
       StoreDbScan(session_id, in[1], in[2], order)

StoreSpec == StoreInit /\ [][StoreNext]_vars

----------------------------------------------------------------------------
\* Product identifiers (services/identifiers.py over product_identifiers)

Digits == {"0", "1", "2", "3", "4", "5", "6", "7", "8", "9"}

\* int(d)
DigitVal(d) ==
  CASE d = "0" -> 0 [] d = "1" -> 1 [] d = "2" -> 2 [] d = "3" -> 3
    [] d = "4" -> 4 [] d = "5" -> 5 [] d = "6" -> 6 [] d = "7" -> 7
    [] d = "8" -> 8 [] d = "9" -> 9

\* code.isdigit() / ^\d{n}$ on the codes used here (ASCII, no line break)
IsDigits(code) == code # <<>> /\ \A i \in 1..Len(code) : code[i] \in Digits

\* sum(int(d) * (even if i % 2 == 0 else odd) for i, d in enumerate(code[:n]))
\* with Python's 0-based i
RECURSIVE WeightedSum(_, _, _, _)
WeightedSum(code, n, even, odd) ==
  IF n = 0 THEN 0
  ELSE DigitVal(code[n]) * (IF (n - 1) % 2 = 0 THEN even ELSE odd)
       + WeightedSum(code, n - 1, even, odd)

CheckDigit(total) == (10 - (total % 10)) % 10

\* Mutant: the EAN-13 weights start with 3, as those of EAN-8 and UPC-A do.
Ean13WeightsSwapped(code) ==
  /\ Len(code) = 13 /\ IsDigits(code)
  /\ DigitVal(code[13]) = CheckDigit(WeightedSum(code, 12, 3, 1))

is_valid_ean13_checksum(code) ==
  /\ Len(code) = 13 /\ IsDigits(code)
  /\ DigitVal(code[13]) = CheckDigit(WeightedSum(code, 12, 1, 3))

is_valid_ean8_checksum(code) ==
  /\ Len(code) = 8 /\ IsDigits(code)
  /\ DigitVal(code[8]) = CheckDigit(WeightedSum(code, 7, 3, 1))

is_valid_upc_checksum(code) ==
  /\ Len(code) = 12 /\ IsDigits(code)
  /\ DigitVal(code[12]) = CheckDigit(WeightedSum(code, 11, 3, 1))

classify_barcode(raw) ==
  LET code == Trim(raw)
  IN IF code = <<>> THEN "custom"
     ELSE IF is_valid_ean13_checksum(code) THEN "ean"
     ELSE IF is_valid_ean8_checksum(code) THEN "ean"
     ELSE IF is_valid_upc_checksum(code) THEN "upc"
     ELSE IF IsDigits(code) /\ Len(code) >= 4 /\ Len(code) <= 10
          THEN "unverified_barcode"
     ELSE "custom"

\* the character class [/,;\s] of split_compound_ean
IsDelimiter(ch) == ch \in {"/", ",", ";", " "}

\* re.split(r'[/,;\s]+', ean_string) with the empty tokens dropped: cur is the
\* token being read
RECURSIVE SplitTokens(_, _)
SplitTokens(str, cur) ==
  IF str = <<>> THEN (IF cur = <<>> THEN <<>> ELSE <<cur>>)
  ELSE IF IsDelimiter(Head(str))
       THEN (IF cur = <<>> THEN <<>> ELSE <<cur>>) \o SplitTokens(Tail(str), <<>>)
       ELSE SplitTokens(Tail(str), Append(cur, Head(str)))

split_compound_ean(ean_string) ==
  LET toks == SplitTokens(ean_string, <<>>)
  IN [k \in 1..Len(toks) |-> [code |-> toks[k], id_type |-> classify_barcode(toks[k])]]

\* priority(item) of add_compound_ean
Priority(id_type) ==
  CASE id_type = "ean" -> 0
    [] id_type = "upc" -> 1
    [] id_type = "unverified_barcode" -> 2
    [] OTHER -> 3

\* Mutant: the codes are taken in input order.
InInputOrder(codes) == codes

\* sorted(codes, key=priority): stable, so equal priorities keep their order
RECURSIVE InsertByPriority(_, _)
InsertByPriority(item, sorted) ==
  IF sorted = <<>> THEN <<item>>
  ELSE IF Priority(item.id_type) < Priority(Head(sorted).id_type)
       THEN <<item>> \o sorted
       ELSE <<Head(sorted)>> \o InsertByPriority(item, Tail(sorted))

RECURSIVE SortByPriority(_)
SortByPriority(codes) ==
  IF codes = <<>> THEN <<>>
  ELSE InsertByPriority(codes[Len(codes)],
                        SortByPriority(SubSeq(codes, 1, Len(codes) - 1)))

\* Identifier values
Ean8A == <<"1", "2", "3", "4", "5", "6", "7", "0">>
Ean8B == <<"1", "1", "1", "1", "1", "1", "1", "5">>
UpcA == <<"1", "1", "1", "1", "1", "1", "1", "1", "1", "1", "1", "7">>
ShortA == <<"1", "2", "3", "4">>
WordA == <<"A", "B">>

\* Compound strings
CompoundA == ShortA \o <<"/">> \o Ean8A \o <<"/">> \o Ean8B
CompoundB == <<" ">> \o ShortA \o <<",", " ">> \o WordA \o <<";">>
CompoundC == WordA \o <<"/">> \o <<"C", "-", "1">>

IdentifierType ==
  {"ean", "upc", "unverified_barcode", "supplier_sku", "internal_sku",
   "manufacturer", "custom"}

\* Mutant: add_identifier never clears a primary flag.
ClearNothing(rows, product_id, id_type) == rows

\* _clear_barcode_group_primary / _clear_type_primary, as add_identifier
\* chooses between them: the rows after the UPDATE of the flushed objects
ClearPrimary(rows, product_id, id_type) ==
  [k \in 1..Len(rows) |->
     IF /\ rows[k].product_id = product_id
        /\ rows[k].is_primary
        /\ IF id_type \in BARCODE_TYPES
           THEN rows[k].identifier_type \in BARCODE_TYPES
           ELSE rows[k].identifier_type = id_type
     THEN [rows[k] EXCEPT !.is_primary = FALSE]
     ELSE rows[k]]

\* Do rows k and l collide on one of the unique indexes of ProductIdentifier
UniqueCollision(a, b) ==
  \/ /\ a.identifier_type = b.identifier_type /\ a.value = b.value
     /\ \/ a.identifier_type \in {"ean", "upc", "internal_sku"}
        \/ a.identifier_type = "unverified_barcode" /\ a.product_id = b.product_id
        \/ a.identifier_type = "supplier_sku" /\ a.supplier_id = b.supplier_id
  \/ /\ a.is_primary /\ b.is_primary /\ a.product_id = b.product_id
     /\ \/ /\ a.identifier_type \in BARCODE_TYPES
           /\ b.identifier_type \in BARCODE_TYPES
        \/ /\ a.identifier_type \notin BARCODE_TYPES
           /\ a.identifier_type = b.identifier_type

UniqueIndexesOk(rows) ==
  \A k, l \in 1..Len(rows) : k # l => ~UniqueCollision(rows[k], rows[l])

\* Mutant: the flush of add_identifier ignores the unique indexes.
FlushAlways(rows) == TRUE

\* self.db.flush() of add_identifier: does the INSERT pass the unique indexes
FlushOk(rows) == UniqueIndexesOk(rows)

\* Mutant: a failed INSERT undoes nothing but itself and leaves the session
\* usable.
FlushFailureKeeps(cleared, committed) == [rows |-> cleared, state |-> "active"]

\* What a failed flush leaves: the session rolls the whole transaction back,
\* so the unit of work sees the committed rows again (once rollback() has
\* been called) and is unusable until then.
FlushFailure(cleared, committed) == [rows |-> committed, state |-> "failed"]

\* add_identifier on the unit of work tx = [rows, state], committed being the
\* committed rows.  A failed flush rolls the transaction back and leaves the
\* session unusable until rollback(): every later statement raises.
add_identifier(tx, committed, product_id, value, identifier_type, supplier_id, is_primary) ==
  LET v == Trim(value)
      t == IF identifier_type = "auto" THEN classify_barcode(v) ELSE identifier_type
      cleared == IF is_primary THEN ClearPrimary(tx.rows, product_id, t) ELSE tx.rows
      row == [product_id |-> product_id, identifier_type |-> t, value |-> v,
              supplier_id |-> supplier_id, is_primary |-> is_primary]
  IN IF v = <<>> \/ (t = "supplier_sku" /\ supplier_id = 0)
     THEN [rows |-> tx.rows, state |-> tx.state, ok |-> FALSE, error |-> "ValueError"]
     ELSE IF tx.state = "failed"
     THEN [rows |-> tx.rows, state |-> tx.state, ok |-> FALSE,
           error |-> "PendingRollbackError"]
     ELSE IF ~FlushOk(Append(cleared, row))
     THEN [rows |-> FlushFailure(cleared, committed).rows,
           state |-> FlushFailure(cleared, committed).state, ok |-> FALSE,
           error |-> "IntegrityError"]
     ELSE [rows |-> Append(cleared, row), state |-> tx.state, ok |-> TRUE,
           error |-> ""]

\* the for loop of add_compound_ean from the k-th sorted code on; acc is
\* [rows, state, primary_set, added]
RECURSIVE CompoundLoop(_, _, _, _, _, _)
CompoundLoop(acc, committed, product_id, sorted_codes, set_first_as_primary, k) ==
  IF k > Len(sorted_codes) THEN acc
  ELSE LET is_primary == /\ set_first_as_primary /\ ~acc.primary_set
                         /\ sorted_codes[k].id_type \in BARCODE_TYPES
           out == add_identifier([rows |-> acc.rows, state |-> acc.state], committed,
                                 product_id, sorted_codes[k].code,
                                 sorted_codes[k].id_type, 0, is_primary)
           acc2 == [rows |-> out.rows, state |-> out.state,
                    primary_set |-> acc.primary_set \/ (out.ok /\ is_primary),
                    added |-> IF out.ok THEN Append(acc.added, sorted_codes[k].code)
                              ELSE acc.added]
       IN CompoundLoop(acc2, committed, product_id, sorted_codes,
                       set_first_as_primary, k + 1)

add_compound_ean(tx, committed, product_id, ean_string, set_first_as_primary) ==
  CompoundLoop([rows |-> tx.rows, state |-> tx.state, primary_set |-> FALSE,
                added |-> <<>>],
               committed, product_id,
               SortByPriority(split_compound_ean(ean_string)),
               set_first_as_primary, 1)

\* The add calls made: (product_id, value, identifier_type, supplier_id,
\* is_primary); "auto" stands for identifier_type = None, 0 for
\* supplier_id = None.
IdAddInputs ==
  {<<1, Ean8A, "auto", 0, TRUE>>, <<1, Ean8A, "auto", 0, FALSE>>,
   <<2, Ean8A, "auto", 0, TRUE>>, <<1, Ean8B, "ean", 0, TRUE>>,
   <<1, UpcA, "auto", 0, TRUE>>, <<1, ShortA, "auto", 0, FALSE>>,
   <<1, WordA, "auto", 0, FALSE>>, <<1, WordA, "manufacturer", 0, TRUE>>,
   <<1, WordA, "internal_sku", 0, TRUE>>, <<1, WordA, "supplier_sku", 1, FALSE>>,
   <<1, WordA, "supplier_sku", 0, FALSE>>, <<1, <<" ">>, "auto", 0, TRUE>>,
   <<2, ShortA, "auto", 0, FALSE>>}

\* The add_compound calls made: (product_id, ean_string, set_first_as_primary)
IdCompoundInputs ==
  {<<1, CompoundA, TRUE>>, <<1, CompoundA, FALSE>>, <<1, CompoundB, TRUE>>,
   <<2, CompoundC, TRUE>>}

IdInit ==
  /\ backend = "db"
  /\ clock = 0
  /\ resp = NoResp
  /\ inflight = [r \in Requests |-> Idle]
  /\ done = <<>>
  /\ NoSession
  /\ NoStore
  /\ NoIdentifiers
  /\ NoLedger

\* A caller awaits add_identifier inside its unit of work.
IdAdd(product_id, value, identifier_type, supplier_id, is_primary) ==
  /\ clock < MaxOps
  /\ LET out == add_identifier([rows |-> txRows, state |-> txState], idRows,
                               product_id, value, identifier_type, supplier_id,
                               is_primary)
     IN /\ txRows' = out.rows
        /\ txState' = out.state
        /\ idResp' = [op |-> "add", ok |-> out.ok, error |-> out.error,
                      added |-> IF out.ok THEN <<Trim(value)>> ELSE <<>>]
  /\ clock' = clock + 1
  /\ UNCHANGED <<ledgerVars, backend, fileVars, dbVars, resp, raceVars, storeVars, idRows>>

\* A caller awaits add_compound_ean inside its unit of work.
IdAddCompound(product_id, ean_string, set_first_as_primary) ==
  /\ clock < MaxOps
  /\ LET out == add_compound_ean([rows |-> txRows, state |-> txState], idRows,
                                 product_id, ean_string, set_first_as_primary)
     IN /\ txRows' = out.rows
        /\ txState' = out.state
        /\ idResp' = [op |-> "add_compound", ok |-> TRUE, error |-> "",
                      added |-> out.added]
  /\ clock' = clock + 1
  /\ UNCHANGED <<ledgerVars, backend, fileVars, dbVars, resp, raceVars, storeVars, idRows>>

\* await session.commit() of get_session; on a failed transaction commit
\* raises and get_session rolls back.  The next unit of work starts.
IdCommit ==
  /\ txRows # idRows \/ txState = "failed"
  /\ idRows' = IF txState = "active" THEN txRows ELSE idRows
  /\ txRows' = IF txState = "active" THEN txRows ELSE idRows
  /\ txState' = "active"
  /\ idResp' = [op |-> "commit", ok |-> txState = "active",
                error |-> IF txState = "active" THEN "" ELSE "PendingRollbackError",
                added |-> <<>>]
  /\ UNCHANGED <<ledgerVars, backend, clock, fileVars, dbVars, resp, raceVars, storeVars>>

\* await session.rollback() of get_session, after an exception left the handler
IdRollback ==
  /\ idResp.op = "add" /\ ~idResp.ok
  /\ txRows' = idRows
  /\ txState' = "active"
  /\ idResp' = [op |-> "rollback", ok |-> TRUE, error |-> "", added |-> <<>>]
  /\ UNCHANGED <<ledgerVars, backend, clock, fileVars, dbVars, resp, raceVars, storeVars, idRows>>

IdNext ==
  \/ \E in \in IdAddInputs : IdAdd(in[1], in[2], in[3], in[4], in[5])
  \/ \E in \in IdCompoundInputs : IdAddCompound(in[1], in[2], in[3])
  \/ IdCommit
  \/ IdRollback

IdSpec == IdInit /\ [][IdNext]_vars

----------------------------------------------------------------------------
\* classify_barcode on its own: the codes handed to it

\* The digits the leading positions of a code are drawn from; the last
\* position takes every digit.
LeadDigits == {"0", "7"}

CodeLengths == {8, 12, 13}

\* The codes of n digits handed to classify_barcode
ClassifyInputs(n) ==
  {lead \o <<d>> : lead \in [1..(n - 1) -> LeadDigits], d \in Digits}

ClassifyInit ==
  /\ backend = "db"
  /\ clock = 0
  /\ resp = NoResp
  /\ inflight = [r \in Requests |-> Idle]
  /\ done = <<>>
  /\ NoSession
  /\ NoStore
  /\ idRows = <<>> /\ txRows = <<>> /\ txState = "active"
  /\ NoLedger
  /\ \E n \in CodeLengths : \E code \in ClassifyInputs(n) :
       idResp = [op |-> "none", ok |-> TRUE, error |-> "", added |-> <<>>,
                 code |-> code, id_type |-> ""]

\* A caller evaluates classify_barcode(code).
Classify ==
  /\ idResp.op = "none"
  /\ idResp' = [idResp EXCEPT !.op = "classify",
                              !.id_type = classify_barcode(idResp.code)]
  /\ UNCHANGED <<ledgerVars, backend, clock, fileVars, dbVars, resp, raceVars, storeVars,
                 idRows, txRows, txState>>

ClassifyNext == Classify

ClassifySpec == ClassifyInit /\ [][ClassifyNext]_vars

----------------------------------------------------------------------------
\* The stock ledger (stock_movements, stock_balances) and the writer that
\* applies the movements of a finalized session to it

LedgerKeys == {"k1", "k2", "k3"}

\* quantity of a movement (CHECK quantity != 0)
MovementQtys == {1, 4}

\* Mutant: idempotency_key is not declared unique.
IdempotencyKeyAny(rows) == TRUE

\* idempotency_key ... unique=True
IdempotencyKeyUnique(rows) ==
  \A k, l \in 1..Len(rows) :
    k # l => rows[k].idempotency_key # rows[l].idempotency_key

\* The writer applies one movement in one transaction: the INSERT into
\* stock_movements and the credit of the balance; an INSERT the unique key
\* refuses undoes the transaction.
ApplyMovement(movs, bal, key, product_id, quantity) ==
  LET row == [idempotency_key |-> key, product_id |-> product_id,
              quantity |-> quantity,
              balance_after |-> bal[product_id] + quantity]
  IN IF IdempotencyKeyUnique(Append(movs, row))
     THEN [movements |-> Append(movs, row),
           balance |-> [bal EXCEPT ![product_id] = @ + quantity], ok |-> TRUE]
     ELSE [movements |-> movs, balance |-> bal, ok |-> FALSE]

LedgerInit ==
  /\ backend = "db"
  /\ clock = 0
  /\ resp = NoResp
  /\ inflight = [r \in Requests |-> Idle]
  /\ done = <<>>
  /\ NoSession
  /\ NoStore
  /\ NoIdentifiers
  /\ NoLedger

\* The writer applies, or applies again, the movement with this key.
LedgerApply(key, product_id, quantity) ==
  /\ clock < MaxOps
  /\ LET out == ApplyMovement(movements, balance, key, product_id, quantity)
     IN /\ movements' = out.movements
        /\ balance' = out.balance
        /\ ledgerResp' = [op |-> "apply", ok |-> out.ok, key |-> key]
  /\ clock' = clock + 1
  /\ UNCHANGED <<backend, fileVars, dbVars, resp, raceVars, storeVars, idVars>>

LedgerNext ==
  \E key \in LedgerKeys, product_id \in Products, quantity \in MovementQtys :
    LedgerApply(key, product_id, quantity)

LedgerSpec == LedgerInit /\ [][LedgerNext]_vars

----------------------------------------------------------------------------
\* Vocabulary of the properties

\* The status function as the specification states it (section 4.6).
SpecStatus(received, ordered) ==
  CASE received <= 0 -> "pending"
    [] received > 0 /\ received < ordered -> "partial"
    [] received > 0 /\ received = ordered -> "matched"
    [] OTHER -> "overage"

\* A request of the given kind has just been served.
Served(op) == clock' = clock + 1 /\ resp'.op = op

Last(s) == s[Len(s)]

\* The matching rule as the specification states it: the first line, in line
\* order, whose ean, supplier_sku or prefix + supplier_sku is the code.
SpecMatches(ean, sku, code) ==
  /\ code # <<>>
  /\ \/ code = ean
     \/ code = sku
     \/ sku # <<>> /\ code = ProductCodePrefix(Supplier) \o sku

FileSpecFirst(lines, code) ==
  IF \E i \in 1..Len(lines) : SpecMatches(lines[i].ean, lines[i].scm, code)
  THEN CHOOSE i \in 1..Len(lines) :
         /\ SpecMatches(lines[i].ean, lines[i].scm, code)
         /\ \A j \in 1..(i - 1) : ~SpecMatches(lines[j].ean, lines[j].scm, code)
  ELSE 0

DbSpecFirst(lines, code) ==
  IF \E i \in 1..Len(lines) : SpecMatches(lines[i].ean, lines[i].supplier_sku, code)
  THEN CHOOSE i \in 1..Len(lines) :
         /\ SpecMatches(lines[i].ean, lines[i].supplier_sku, code)
         /\ \A j \in 1..(i - 1) :
              ~SpecMatches(lines[j].ean, lines[j].supplier_sku, code)
  ELSE 0

\* Sum of f[k] over the indices k in S.
RECURSIVE SumOver(_, _)
SumOver(f, S) ==
  IF S = {} THEN 0
  ELSE LET k == CHOOSE k \in S : TRUE IN f[k] + SumOver(f, S \ {k})

----------------------------------------------------------------------------
\* C1: in every reachable state, every line's stored status is the status
\* function of its stored (received_qty, ordered_qty), whatever the ordered
\* quantity (0 included) and the scan or edit quantities (negative included).
C1_StatusInSync ==
  /\ \A i \in 1..Len(fLines) :
       fLines[i].status = SpecStatus(fLines[i].received_qty, fLines[i].ordered_qty)
  /\ \A i \in 1..Len(dbLines) :
       dbLines[i].status = SpecStatus(dbLines[i].received_qty, dbLines[i].ordered_qty)

\* C2: once two overlapping scan requests have both completed, every line's
\* received_qty is the sum of the quantities of the completed scans that
\* matched it: no request overwrites the other's update.
C2_NoLostUpdate ==
  NoneInFlight =>
    /\ \A i \in 1..Len(fLines) :
         (done # <<>> /\ \A k \in 1..Len(done) : done[k].line = i) =>
           fLines[i].received_qty = SumOver([k \in 1..Len(done) |-> done[k].qty],
                                            1..Len(done))
    /\ \A i \in 1..Len(dbLines) :
         (done # <<>> /\ \A k \in 1..Len(done) : done[k].line = i) =>
           dbLines[i].received_qty = SumOver([k \in 1..Len(done) |-> done[k].qty],
                                             1..Len(done))

----------------------------------------------------------------------------
\* The log entries of the session file that are scans (they carry no type).
OnlyScans(scans) == \A k \in 1..Len(scans) : scans[k].type = ""

\* Indices of the scans of the file log that went to line i.
FileScansOf(lines, scans, i) ==
  {k \in 1..Len(scans) : FileSpecFirst(lines, scans[k].code) = i}

\* Indices of the scan events stored for line i.
DbEventsOf(events, i) ==
  {k \in 1..Len(events) : events[k].receiving_line_id = i}

\* C3: after non-overlapping scans only, each line's received_qty is the sum
\* of the quantities of the scans that matched it, and each scan returned the
\* status of the running total; on one line of ordered_qty 10, scans of 4, 6
\* and 1 return partial / 4, matched / 10, overage / 11.
C3_ScansAccumulate ==
  /\ (backend = "json" /\ OnlyScans(fScans)) =>
       /\ \A i \in 1..Len(fLines) :
            fLines[i].received_qty =
              SumOver([k \in 1..Len(fScans) |-> fScans[k].qty],
                      FileScansOf(fLines, fScans, i))
       /\ \A k \in 1..Len(fScans) :
            LET i == FileSpecFirst(fLines, fScans[k].code)
            IN i # 0 =>
                 fScans[k].status =
                   SpecStatus(SumOver([j \in 1..Len(fScans) |-> fScans[j].qty],
                                      {j \in FileScansOf(fLines, fScans, i) : j <= k}),
                              fLines[i].ordered_qty)
       /\ (resp.op = "scan" /\ fScans # <<>>) => resp.status = Last(fScans).status
       /\ (fLines[1].ordered_qty = 10
           /\ [k \in 1..Len(fScans) |-> fScans[k].qty] = <<4, 6, 1>>
           /\ \A k \in 1..Len(fScans) : fScans[k].code = EanA) =>
            /\ [k \in 1..Len(fScans) |-> fScans[k].status]
                 = <<"partial", "matched", "overage">>
            /\ fLines[1].received_qty = 11
  /\ backend = "db" =>
       /\ \A i \in 1..Len(dbLines) :
            dbLines[i].received_qty =
              SumOver([k \in 1..Len(dbEvents) |-> dbEvents[k].quantity],
                      DbEventsOf(dbEvents, i))
       /\ (resp.op = "scan" /\ resp.ok /\ resp.line # 0) =>
            resp.status = SpecStatus(dbLines[resp.line].received_qty,
                                     dbLines[resp.line].ordered_qty)
       /\ (dbLines[1].ordered_qty = 10 /\ resp.op = "scan" /\ resp.ok
           /\ \A k \in 1..Len(dbEvents) : dbEvents[k].receiving_line_id = 1) =>
            LET q == [k \in 1..Len(dbEvents) |-> dbEvents[k].quantity]
            IN /\ q = <<4>> => resp.status = "partial" /\ dbLines[1].received_qty = 4
               /\ q = <<4, 6>> => resp.status = "matched" /\ dbLines[1].received_qty = 10
               /\ q = <<4, 6, 1>> =>
                    resp.status = "overage" /\ dbLines[1].received_qty = 11

\* C3 witness: the scenario has run on the PostgreSQL session.
C3_Witness ==
  /\ backend = "db" /\ dbLines[1].ordered_qty = 10
  /\ [k \in 1..Len(dbEvents) |-> dbEvents[k].quantity] = <<4, 6, 1>>
  /\ \A k \in 1..Len(dbEvents) : dbEvents[k].receiving_line_id = 1
  /\ resp.op = "scan" /\ resp.status = "overage"
  /\ dbLines[1].received_qty = 11

----------------------------------------------------------------------------
\* C4: a scan credits exactly one line, the first line in line order whose
\* ean, supplier_sku or derived product_code (prefix + supplier_sku) is the
\* trimmed code, even if that line is matched or in overage; with no such line
\* the scan is unexpected.
C4_ScanCreditsFirstMatch ==
  [][ /\ (Served("scan") /\ resp'.ok /\ backend = "json") =>
           LET e == Last(fScans')
               m == FileSpecFirst(fLines, e.code)
           IN /\ resp'.line = m
              /\ (m = 0) = (resp'.status = "unexpected")
              /\ \A i \in 1..Len(fLines) :
                   fLines'[i].received_qty =
                     fLines[i].received_qty + (IF i = m THEN e.qty ELSE 0)
      /\ (Served("scan") /\ resp'.ok /\ backend = "db") =>
           LET e == Last(dbEvents')
               m == DbSpecFirst(dbLines, e.scanned_code)
           IN /\ resp'.line = m
              /\ (m = 0) = (resp'.status = "unexpected")
              /\ \A i \in 1..Len(dbLines) :
                   dbLines'[i].received_qty =
                     dbLines[i].received_qty + (IF i = m THEN e.quantity ELSE 0)
    ]_vars

----------------------------------------------------------------------------
\* C5: a scan whose code is on no line records exactly one scan event with no
\* line and result unexpected, raises the number of unexpected scans counted
\* from the stored history by exactly 1, and leaves every line unchanged.
C5_UnexpectedScan ==
  [][ /\ (Served("scan") /\ resp'.ok /\ backend = "json"
          /\ (\/ FileSpecFirst(fLines, Last(fScans').code) = 0
              \/ resp'.status = "unexpected")) =>
           /\ Len(fScans') = Len(fScans) + 1
           /\ SubSeq(fScans', 1, Len(fScans)) = fScans
           /\ Last(fScans').status = "unexpected"
           /\ Last(fScans').line_index = 0
           /\ resp'.status = "unexpected" /\ resp'.line = 0
           /\ FileUnexpected(fScans') = FileUnexpected(fScans) + 1
           /\ fLines' = fLines
      /\ (Served("scan") /\ resp'.ok /\ backend = "db"
          /\ (\/ DbSpecFirst(dbLines, Last(dbEvents').scanned_code) = 0
              \/ resp'.status = "unexpected")) =>
           /\ Len(dbEvents') = Len(dbEvents) + 1
           /\ SubSeq(dbEvents', 1, Len(dbEvents)) = dbEvents
           /\ Last(dbEvents').receiving_line_id = 0
           /\ resp'.status = "unexpected" /\ resp'.line = 0
           /\ DbUnexpected(dbEvents') = DbUnexpected(dbEvents) + 1
           /\ dbLines' = dbLines
    ]_vars

\* C5 witness: an unexpected scan recorded after a line had been credited.
C5_Witness ==
  /\ backend = "json" /\ resp.op = "scan" /\ resp.status = "unexpected"
  /\ Len(fScans) >= 2 /\ Last(fScans).code = Unknown
  /\ FileUnexpected(fScans) = 1
  /\ \E i \in 1..Len(fLines) : fLines[i].received_qty > 0

----------------------------------------------------------------------------
\* C6: PostgreSQL finalize on a session that is not completed sets status =
\* completed and finished_at; on a completed session it fails and leaves
\* status, finished_at and every line unchanged.
C6_FinalizeOnce ==
  [][ (Served("finalize") /\ backend = "db") =>
        IF dbStatus # "completed"
        THEN /\ resp'.ok
             /\ dbStatus' = "completed"
             /\ dbFinishedAt' = clock' /\ dbFinishedAt' # 0
        ELSE /\ ~resp'.ok
             /\ UNCHANGED dbVars
    ]_vars

\* C6 witness: a second finalize has been refused.
C6_Witness ==
  /\ backend = "db" /\ resp.op = "finalize" /\ ~resp.ok
  /\ dbStatus = "completed" /\ dbFinishedAt # 0 /\ dbFinishedAt < clock

----------------------------------------------------------------------------
\* Lines with a positive received quantity.
FilePositive(lines) == {i \in 1..Len(lines) : lines[i].received_qty > 0}
DbPositive(lines) == {i \in 1..Len(lines) : lines[i].received_qty > 0}

\* C7: the output of finalize holds one (product_code, received_qty) entry
\* for every line with received_qty > 0, carrying that line's received_qty,
\* and none for the other lines, also for lines without supplier_sku and for
\* lines that share a supplier_sku.
C7_FinalizeOutput ==
  /\ (backend = "json" /\ resp.op = "finalize" /\ fCompleted.at = clock) =>
       /\ Len(fCompleted.items) = Cardinality(FilePositive(fLines))
       /\ \A i \in FilePositive(fLines) :
            \E k \in 1..Len(fCompleted.items) :
              /\ fCompleted.items[k].received_qty = fLines[i].received_qty
              /\ fCompleted.items[k].product_code = fLines[i].product_code
              /\ fCompleted.items[k].ean = fLines[i].ean
  /\ (backend = "db" /\ resp.op = "finalize" /\ resp.ok) =>
       /\ Len(resp.codes) = Cardinality(DbPositive(dbLines))
       /\ \A i \in DbPositive(dbLines) :
            \E k \in 1..Len(resp.codes) :
              <<resp.codes[k], dbLines[i].received_qty>> \in resp.edits
       /\ \A k \in 1..Len(resp.codes) : \E e \in resp.edits : e[1] = resp.codes[k]

----------------------------------------------------------------------------
\* C8: PostgreSQL pause succeeds exactly from new and in_progress; it then
\* sets status = paused and paused_at and changes no line; from paused,
\* completed or cancelled it fails and changes nothing.
C8_Pause ==
  [][ (Served("pause") /\ backend = "db") =>
        /\ resp'.ok = (dbStatus \in {"new", "in_progress"})
        /\ resp'.ok => /\ dbStatus' = "paused"
                       /\ dbPausedAt' = clock' /\ dbPausedAt' # 0
                       /\ dbLines' = dbLines
        /\ ~resp'.ok => UNCHANGED dbVars
        /\ \A st \in ReceivingStatus :
             PauseAllowed(st) = (st \notin {"paused", "completed", "cancelled"})
    ]_vars

\* C8 witness: a pause has been refused on a completed session whose lines
\* hold received quantities.
C8_Witness ==
  /\ backend = "db" /\ resp.op = "pause" /\ ~resp.ok
  /\ dbStatus = "completed"
  /\ \E i \in 1..Len(dbLines) : dbLines[i].received_qty > 0

----------------------------------------------------------------------------
\* C9: PostgreSQL resume succeeds exactly from paused; it then sets status =
\* in_progress and clears paused_at; from any other status it fails and
\* changes nothing.
C9_Resume ==
  [][ (Served("resume") /\ backend = "db") =>
        /\ resp'.ok = (dbStatus = "paused")
        /\ resp'.ok => /\ dbStatus' = "in_progress"
                       /\ dbPausedAt # 0 /\ dbPausedAt' = 0
        /\ ~resp'.ok => UNCHANGED dbVars
        /\ \A st \in ReceivingStatus : ResumeAllowed(st) = (st = "paused")
    ]_vars

\* C9 witness: a paused session has been resumed.
C9_Witness ==
  /\ backend = "db" /\ resp.op = "resume" /\ resp.ok
  /\ dbStatus = "in_progress" /\ dbPausedAt = 0

----------------------------------------------------------------------------
\* C10: a scan served on a PostgreSQL session in status new moves it to
\* in_progress and sets started_at; a scan on a session in any other status
\* changes neither the status nor started_at.  (A scan the database rejects
\* at commit is rolled back and changes nothing at all.)
C10_FirstScanStarts ==
  [][ (Served("scan") /\ backend = "db") =>
        /\ (resp'.ok /\ dbStatus = "new") =>
             /\ dbStatus' = "in_progress"
             /\ dbStartedAt' = clock' /\ dbStartedAt' # 0
        /\ (resp'.ok /\ dbStatus # "new") =>
             UNCHANGED <<dbStatus, dbStartedAt>>
        /\ ~resp'.ok => UNCHANGED dbVars
    ]_vars

\* C10 witness: a scan has been served on a paused session that an earlier
\* scan had started.
C10_Witness ==
  /\ backend = "db" /\ resp.op = "scan" /\ resp.ok
  /\ dbStatus = "paused" /\ dbStartedAt = 1 /\ clock = 3

----------------------------------------------------------------------------
\* C11: in the JSON-file router, resume on a session that is not paused and
\* finalize on a session that has already been finalized are rejected and
\* change nothing in the session's files.
C11_FileLifecycleGuards ==
  [][ /\ (Served("resume") /\ backend = "json" /\ ~fPause.is_paused) =>
           ~resp'.ok /\ UNCHANGED fileVars
      /\ (Served("finalize") /\ backend = "json" /\ fCompleted.at # 0) =>
           ~resp'.ok /\ UNCHANGED fileVars
    ]_vars

----------------------------------------------------------------------------
\* C12: PostgreSQL create-session on an invoice with n parsed rows (and no
\* session yet) stores a session in status new with total_lines = n and
\* exactly n lines numbered 1..n in row order, each with received_qty = 0 and
\* status pending; the number of stored lines equals total_lines in every
\* later state.
C12_CreateStoresLines ==
  [][ /\ \A r \in Requests :
           (/\ backend = "db"
            /\ creating[r].pc = "selected" /\ creating'[r].pc = "idle"
            /\ ~SessionExists(sessions, creating[r].inv)) =>
             LET rows == InvoiceRows(creating[r].inv)
                 n == Len(rows)
             IN /\ resp'.ok /\ resp'.total_lines = n
                /\ Len(sessions') = Len(sessions) + 1
                /\ Last(sessions').invoice_number = creating[r].inv
                /\ Last(sessions').status = "new"
                /\ Last(sessions').total_lines = n
                /\ Len(Last(sessions').lines) = n
                /\ \A i \in 1..n :
                     /\ Last(sessions').lines[i].line_number = i
                     /\ Last(sessions').lines[i].ean = rows[i].ean
                     /\ Last(sessions').lines[i].supplier_sku = rows[i].scm
                     /\ Last(sessions').lines[i].ordered_qty = rows[i].ordered_qty
                     /\ Last(sessions').lines[i].received_qty = 0
                     /\ Last(sessions').lines[i].status = "pending"
      /\ \A k \in 1..Len(sessions') :
           Len(sessions'[k].lines) = sessions'[k].total_lines
    ]_vars

----------------------------------------------------------------------------
\* C13: at most one receiving session exists per (supplier, invoice_number);
\* a create-session request for an invoice that already has a session fails
\* and stores neither a session nor lines, also when two create requests for
\* the same invoice overlap.
C13_OneSessionPerInvoice ==
  [][ /\ \A k, l \in 1..Len(sessions') :
           sessions'[k].invoice_number = sessions'[l].invoice_number => k = l
      /\ \A f, g \in files' : f.inv = g.inv => f.id = g.id
      /\ (Served("create") /\ backend = "db") =>
           /\ resp'.ok => ~SessionExists(sessions, Last(returned').invoice)
           /\ ~resp'.ok => sessions' = sessions
      /\ (Served("create") /\ backend = "json"
          /\ \E f \in files : f.inv = Last(returned').invoice) =>
           ~resp'.ok /\ files' = files
    ]_vars

----------------------------------------------------------------------------
\* C14: every create-session call yields a session identifier distinct from
\* that of every other session of the supplier, also within one clock second,
\* so an operation addressed to a session by its identifier reads and changes
\* that session only.
C14_SessionsIndependent ==
  [][ /\ \A k, l \in 1..Len(returned') :
           returned'[k].session_id = returned'[l].session_id => k = l
      /\ (Served("scan") /\ backend = "json") =>
           /\ Cardinality({f \in files : f.id = resp'.session_id}) <= 1
           /\ \A f \in files : f.id # resp'.session_id => f \in files'
      /\ (Served("scan") /\ backend = "db") =>
           /\ Len(sessions') = Len(sessions)
           /\ \A k \in 1..Len(sessions) :
                k # resp'.session_id => sessions'[k] = sessions[k]
    ]_vars

----------------------------------------------------------------------------
\* The completed scans of a code and quantity, and their entries in the logs.
DoneScans(code, qty) ==
  {k \in 1..Len(done) : done[k].code = code /\ done[k].qty = qty}

FileLogged(code, qty) ==
  {j \in 1..Len(fScans) :
     fScans[j].type = "" /\ fScans[j].code = code /\ fScans[j].qty = qty}

DbLogged(code, qty) ==
  {j \in 1..Len(dbEvents) :
     dbEvents[j].scanned_code = code /\ dbEvents[j].quantity = qty}

\* C15: the event of every completed scan request, matched or unexpected, is
\* in the session's scan log in every later state, whatever requests ran
\* after it or concurrently with it.
C15_ScanLogKept ==
  \A in \in RaceInputs :
    /\ backend = "json" =>
         Cardinality(FileLogged(Trim(in[1]), in[2]))
           >= Cardinality(DoneScans(Trim(in[1]), in[2]))
    /\ backend = "db" =>
         Cardinality(DbLogged(Trim(in[1]), in[2]))
           >= Cardinality(DoneScans(Trim(in[1]), in[2]))

----------------------------------------------------------------------------
\* C16: on a session whose lines all have ordered_qty > 0, whatever scans and
\* edits came before, reset_all followed by accept_all(only_pending = True)
\* leaves every line with received_qty = ordered_qty and status matched.
\* (Right after reset_all every line is pending, so the step is the same for
\* either value of only_pending.)
C16_ResetThenAccept ==
  [][ (/\ Served("accept-all") /\ backend = "json"
       /\ resp.op = "reset-all"
       /\ \A i \in 1..Len(fLines) : fLines[i].ordered_qty > 0) =>
        \A i \in 1..Len(fLines') :
          /\ fLines'[i].received_qty = fLines'[i].ordered_qty
          /\ fLines'[i].status = "matched"
          /\ fLines'[i].ordered_qty = fLines[i].ordered_qty
    ]_vars

\* C16 witness: a line was scanned, then everything reset, then accepted, on
\* a session of two lines.
C16_Witness ==
  /\ backend = "json" /\ resp.op = "accept-all" /\ Len(fLines) = 2
  /\ Len(fScans) = 4
  /\ fScans[1].type = "" /\ fScans[1].status # "unexpected"
  /\ fScans[2].type = "bulk_reset"
  /\ fScans[3].type = "bulk_accept" /\ fScans[4].type = "bulk_accept"
  /\ \A i \in 1..2 : fLines[i].status = "matched"
                     /\ fLines[i].received_qty = fLines[i].ordered_qty

----------------------------------------------------------------------------
\* Rows of a product that are primary within a set of types.
PrimariesOf(rows, product_id, types) ==
  {k \in 1..Len(rows) :
     /\ rows[k].product_id = product_id /\ rows[k].is_primary
     /\ rows[k].identifier_type \in types}

OnePrimaryPerGroup(rows) ==
  \A product_id \in {1, 2} :
    /\ Cardinality(PrimariesOf(rows, product_id, BARCODE_TYPES)) <= 1
    /\ \A t \in IdentifierType \ BARCODE_TYPES :
         Cardinality(PrimariesOf(rows, product_id, {t})) <= 1

\* The type add_identifier gives a value.
TypeOf(value, identifier_type) ==
  IF identifier_type = "auto" THEN classify_barcode(Trim(value)) ELSE identifier_type

\* C17: after any sequence of add and add_compound calls, every product has
\* at most one primary identifier within the barcode group and at most one
\* per type for every other type, in the open unit of work and in the
\* committed rows; and adding a barcode as primary whose value is not stored
\* yet succeeds and leaves exactly one primary in the product's barcode group,
\* the new one (an ean added as primary, then a upc added as primary).
C17_OnePrimary ==
  [][ /\ OnePrimaryPerGroup(txRows') /\ OnePrimaryPerGroup(idRows')
      /\ \A in \in IdAddInputs :
           (/\ in[5] /\ txState = "active" /\ idResp'.op = "add"
            /\ TypeOf(in[2], in[3]) \in BARCODE_TYPES
            /\ \A k \in 1..Len(txRows) : txRows[k].value # Trim(in[2])
            /\ IdAdd(in[1], in[2], in[3], in[4], in[5])) =>
             /\ idResp'.ok
             /\ PrimariesOf(txRows', in[1], BARCODE_TYPES) = {Len(txRows')}
             /\ Last(txRows').value = Trim(in[2])
    ]_vars

\* C17 witness: product 1 holds an ean that was primary and a upc that was
\* added as primary after it.
C17_Witness ==
  /\ idResp.op = "add" /\ idResp.ok /\ Len(txRows) >= 2
  /\ Last(txRows).identifier_type = "upc" /\ Last(txRows).is_primary
  /\ Last(txRows).product_id = 1
  /\ \E k \in 1..(Len(txRows) - 1) :
       /\ txRows[k].identifier_type = "ean" /\ txRows[k].product_id = 1
       /\ ~txRows[k].is_primary

----------------------------------------------------------------------------
\* Is (product_id, value, type) of an add call already a row
Stored(rows, product_id, value, identifier_type) ==
  \E k \in 1..Len(rows) :
    /\ rows[k].product_id = product_id
    /\ rows[k].value = Trim(value)
    /\ rows[k].identifier_type = TypeOf(value, identifier_type)

\* C18: an add whose (product_id, value, type) is already stored (by an
\* earlier, committed add) fails, for every identifier type, and leaves the
\* store as the first add left it: no second row, no changed primary flag.
C18_DuplicateAddFails ==
  [][ \A in \in IdAddInputs :
        (/\ IdAdd(in[1], in[2], in[3], in[4], in[5])
         /\ txState = "active" /\ txRows = idRows
         /\ Stored(idRows, in[1], in[2], in[3])) =>
          /\ ~idResp'.ok
          /\ txRows' = txRows
          /\ idRows' = idRows
    ]_vars

----------------------------------------------------------------------------
\* The committed rows that are primary in the unit of work.
CommittedPrimaries(rows, committed) ==
  {k \in 1..Len(committed) : k <= Len(rows) /\ rows[k].is_primary}

----------------------------------------------------------------------------
\* Rows holding a code with its type.
RowsOf(rows, code, id_type) ==
  {k \in 1..Len(rows) : rows[k].value = code /\ rows[k].identifier_type = id_type}

\* C20: add_compound on a string of which some code is already stored does
\* not raise, adds no row for a code that is already stored, and stores every
\* other code of the string for the product, whether it is sorted before the
\* duplicate or after it, in a unit of work that can still be committed.
C20_CompoundSkipsDuplicates ==
  [][ \A in \in IdCompoundInputs :
        (IdAddCompound(in[1], in[2], in[3]) /\ txState = "active") =>
          LET codes == split_compound_ean(in[2])
          IN /\ idResp'.ok
             /\ txState' = "active"
             /\ \A j \in 1..Len(codes) :
                  IF RowsOf(txRows, codes[j].code, codes[j].id_type) # {}
                  THEN Cardinality(RowsOf(txRows', codes[j].code, codes[j].id_type))
                         = Cardinality(RowsOf(txRows, codes[j].code, codes[j].id_type))
                  ELSE \E k \in RowsOf(txRows', codes[j].code, codes[j].id_type) :
                         txRows'[k].product_id = in[1]
    ]_vars

----------------------------------------------------------------------------
\* The check-digit rule of GS1, as the specification names it: counted from
\* the right, the digits weigh 1, 3, 1, 3, ... and the weighted sum of all of
\* them, check digit included, is a multiple of 10.
RECURSIVE Gs1Sum(_, _)
Gs1Sum(code, p) ==
  IF p > Len(code) THEN 0
  ELSE DigitVal(code[Len(code) + 1 - p]) * (IF p % 2 = 1 THEN 1 ELSE 3)
       + Gs1Sum(code, p + 1)

Gs1Valid(code) == Gs1Sum(code, 1) % 10 = 0

\* C21: a string of 13 digits is classified ean exactly when its EAN-13
\* check digit is right, a string of 8 digits is classified ean exactly when
\* its EAN-8 check digit is right, and a string of 12 digits is classified
\* upc exactly when its UPC-A check digit is right.
C21_ClassifyByChecksum ==
  idResp.op = "classify" =>
    LET code == idResp.code
    IN /\ (IsDigits(code) /\ Len(code) \in {8, 13})
            => (idResp.id_type = "ean" <=> Gs1Valid(code))
       /\ (IsDigits(code) /\ Len(code) = 12)
            => (idResp.id_type = "upc" <=> Gs1Valid(code))

\* A 13-digit code with the right check digit has been classified.
C21_Witness ==
  /\ idResp.op = "classify"
  /\ Len(idResp.code) = 13 /\ IsDigits(idResp.code)
  /\ Gs1Valid(idResp.code)
  /\ idResp.id_type = "ean"

KeysOf(rows) == {rows[k].idempotency_key : k \in 1..Len(rows)}

\* C22: applying a movement whose idempotency_key the ledger already holds
\* is a no-op: the movements and the balances stay as the first application
\* left them, so stock is never credited twice for one key.
C22_ReapplyIsNoOp ==
  [][\A key \in LedgerKeys, product_id \in Products, quantity \in MovementQtys :
       (LedgerApply(key, product_id, quantity) /\ key \in KeysOf(movements))
         => (movements' = movements /\ balance' = balance)]_vars

\* A movement has been applied a second time.
C22_Witness ==
  /\ ledgerResp.op = "apply" /\ ~ledgerResp.ok
  /\ ledgerResp.key \in KeysOf(movements)
  /\ \E p \in Products : balance[p] > 0

\* C23: the summary in the response of a scan, set-qty, accept-all or
\* reset-all equals what the summary endpoint computes from the stored state
\* right after the operation: the lines per status and the unexpected scans
\* of the scan history, the scan just recorded included.
C23_ResponseSummary ==
  (resp.op \in {"scan", "set-qty", "accept-all", "reset-all"} /\ resp.ok)
    => resp.summary = IF backend = "json" THEN FileSummary(fLines, fScans)
                      ELSE DbSummary(dbLines, dbEvents)

\* C24: set-qty on an existing line makes the supplied value the line's
\* received_qty whatever it was, gives the line the status a scan would give
\* that quantity, leaves the line's other fields and every other line alone,
\* and appends exactly one log entry, marked manual_edit; the entry a scan
\* appends is not marked so.
C24_SetQty ==
  [][/\ \A idx \in 1..Len(fLines), qty \in EditQtys :
          FileSetQty(idx, qty) =>
            /\ Len(fLines') = Len(fLines)
            /\ fLines'[idx] =
                 [fLines[idx] EXCEPT
                    !.received_qty = qty,
                    !.status = FileCredit([fLines[idx] EXCEPT !.received_qty = 0],
                                          qty).status]
            /\ \A j \in 1..Len(fLines) : j # idx => fLines'[j] = fLines[j]
            /\ Len(fScans') = Len(fScans) + 1
            /\ SubSeq(fScans', 1, Len(fScans)) = fScans
            /\ Last(fScans').type = "manual_edit"
            /\ Last(fScans').line_index = idx
     /\ \A in \in ScanInputs :
          FileScan(in[1], in[2]) =>
            /\ Len(fScans') = Len(fScans) + 1
            /\ Last(fScans').type # "manual_edit"]_vars

\* A line that scans had credited has been set to another quantity by hand.
C24_Witness ==
  /\ backend = "json"
  /\ resp.op = "set-qty" /\ resp.ok
  /\ Last(fScans).type = "manual_edit"
  /\ Last(fScans).old_qty > 0
  /\ Last(fScans).qty # Last(fScans).old_qty
  /\ fLines[resp.line].received_qty = Last(fScans).qty
  /\ Len(fLines) > 1

\* C25: every barcode value stored in the barcode group belongs to at most
\* one product, so find_product_by_barcode has at most one candidate.
C25_BarcodeOneProduct ==
  \A k \in 1..Len(idRows) :
    idRows[k].identifier_type \in BARCODE_TYPES
      => Cardinality(BarcodeCandidates(idRows, idRows[k].value)) <= 1

\* The order of the barcode group in which a primary is elected.
BarcodeRank(id_type) ==
  CASE id_type = "ean" -> 0 [] id_type = "upc" -> 1
    [] id_type = "unverified_barcode" -> 2

\* The codes, in the order of the string, that come first in the election:
\* of the barcode group, none of a better rank, none of the same rank earlier.
Elected(codes) ==
  {k \in 1..Len(codes) :
     /\ codes[k].id_type \in BARCODE_TYPES
     /\ \A j \in 1..Len(codes) :
          codes[j].id_type \in BARCODE_TYPES
            => \/ BarcodeRank(codes[k].id_type) < BarcodeRank(codes[j].id_type)
               \/ /\ BarcodeRank(codes[k].id_type) = BarcodeRank(codes[j].id_type)
                  /\ k <= j}

\* The rows a call has added to the rows before, when the unit of work is
\* still standing after it.
AddedRows(before, after, state) ==
  IF state = "active" /\ Len(after) >= Len(before)
  THEN SubSeq(after, Len(before) + 1, Len(after)) ELSE <<>>

\* C26: of the codes an add_compound call stores, at most one is primary:
\* with set_first_as_primary the stored code that is first in the order
\* ean < upc < unverified_barcode, the earlier in the string among equals;
\* none when the string has no code of the barcode group or the flag is off.
C26_CompoundPrimary ==
  [][\A in \in IdCompoundInputs :
       (idResp'.op = "add_compound" /\ IdAddCompound(in[1], in[2], in[3])) =>
         LET new == AddedRows(txRows, txRows', txState')
             codes == split_compound_ean(in[2])
             prim == {k \in 1..Len(new) : new[k].is_primary}
         IN /\ Cardinality(prim) <= 1
            /\ (~in[3] \/ Elected(codes) = {}) => prim = {}
            /\ (in[3] /\ Elected(codes) # {} /\ new # <<>>) =>
                 /\ Cardinality(prim) = 1
                 /\ \A k \in prim : \A e \in Elected(codes) :
                      /\ new[k].value = codes[e].code
                      /\ new[k].identifier_type = codes[e].id_type
                      /\ new[k].product_id = in[1]]_vars

\* A compound string with an unverified code before two EANs has been stored:
\* the first EAN is the primary, the other two codes are not.
C26_Witness ==
  /\ idResp.op = "add_compound" /\ txState = "active"
  /\ \E k, l, m \in 1..Len(txRows) :
       /\ txRows[k].value = Ean8A /\ txRows[k].is_primary
       /\ txRows[l].value = Ean8B /\ ~txRows[l].is_primary
       /\ txRows[m].value = ShortA /\ ~txRows[m].is_primary
       /\ txRows[k].product_id = 1 /\ txRows[l].product_id = 1
       /\ txRows[m].product_id = 1

\* Does the store hold the code as a barcode of the product / as a
\* supplier_sku of the product under the receiving supplier
HoldsBarcode(q, code) ==
  \E k \in 1..Len(idRows) :
    /\ idRows[k].product_id = q /\ idRows[k].value = code
    /\ idRows[k].identifier_type \in {"ean", "upc", "unverified_barcode"}

HoldsSupplierSku(q, sku) ==
  \E k \in 1..Len(idRows) :
    /\ idRows[k].product_id = q /\ idRows[k].value = sku
    /\ idRows[k].identifier_type = "supplier_sku"
    /\ idRows[k].supplier_id = SupplierId

\* C27: every created session has one line per invoice row; a line is
\* resolved by the barcode lookup of its ean when that finds a product, by
\* the supplier's supplier_sku lookup only when the barcode lookup finds
\* none, match_method names the lookup that resolved, and product_id is null
\* (with no match_method) exactly when neither lookup finds a product.
C27_LineResolution ==
  backend = "db" =>
    \A n \in 1..Len(sessions) :
      LET rows == InvoiceRows(sessions[n].invoice_number)
          lines == sessions[n].lines
      IN /\ Len(lines) = Len(rows)
         /\ \A i \in 1..Len(rows) :
              LET by_ean == \E q \in Products : HoldsBarcode(q, rows[i].ean)
                  by_sku == \E q \in Products : HoldsSupplierSku(q, rows[i].scm)
              IN /\ lines[i].match_method = "ean" <=> by_ean
                 /\ lines[i].match_method = "supplier_sku" <=> (~by_ean /\ by_sku)
                 /\ lines[i].match_method = "none" <=> (~by_ean /\ ~by_sku)
                 /\ lines[i].product_id = 0 <=> (~by_ean /\ ~by_sku)
                 /\ lines[i].match_method = "ean"
                      => HoldsBarcode(lines[i].product_id, rows[i].ean)
                 /\ lines[i].match_method = "supplier_sku"
                      => HoldsSupplierSku(lines[i].product_id, rows[i].scm)

\* A session has a line resolved by supplier_sku and a line left unresolved.
C27_Witness ==
  /\ backend = "db"
  /\ \E n \in 1..Len(sessions) : \E i, j \in 1..Len(sessions[n].lines) :
       /\ sessions[n].lines[i].match_method = "supplier_sku"
       /\ sessions[n].lines[i].product_id = 2
       /\ sessions[n].lines[j].match_method = "none"
       /\ sessions[n].lines[j].product_id = 0

\* received_qty and status of every line
QtyAndStatus(lines) ==
  [i \in 1..Len(lines) |->
     [received_qty |-> lines[i].received_qty, status |-> lines[i].status]]

\* C28: once finalize has completed a session, no operation changes the
\* received_qty or the status of any of its lines.
C28_FrozenAfterFinalize ==
  [][ /\ (backend = "db" /\ dbStatus = "completed")
           => QtyAndStatus(dbLines') = QtyAndStatus(dbLines)
      /\ (backend = "json" /\ fCompleted.at # 0)
           => QtyAndStatus(fLines') = QtyAndStatus(fLines)
    ]_vars

\* C29: a PostgreSQL session in status in_progress has its started_at set.
C29_StartedWhenInProgress ==
  (backend = "db" /\ dbStatus = "in_progress") => dbStartedAt # 0

\* C30: a finalize request succeeds only on a session that no finalize has
\* completed before it acts, also when finalize requests overlap: the one
\* that acts second finds the session completed and fails.
C30_OneFinalizeSucceeds ==
  [][\A r \in Requests :
       /\ (DbFinalizeCommit(r) /\ resp'.ok) => dbStatus # "completed"
       /\ FileFinalizeWrite(r) => fCompleted.at = 0]_vars
====
